---- MODULE Spec2Model ----
(***************************************************************************)
(* A model of the peer discovery and file transfer protocol of            *)
(* src/p2p_protocol.py (class P2PProtocol).                               *)
(*                                                                         *)
(* Every node runs the same code.  A node is identified by its discovery  *)
(* address (host, port); its UDP discovery socket is bound to that        *)
(* address and its TCP transfer socket to (host, port + 1).  Handlers are *)
(* modelled as single steps: one step of _discovery_loop is one iteration *)
(* of the loop (dispatch followed by _cleanup_peers), one step of         *)
(* RequestFile is one call of request_file including every connection it *)
(* opens and the work of the serving node's transfer handler.             *)
(***************************************************************************)
EXTENDS Integers, Sequences, FiniteSets, TLC

\* ------------------------------------------------------------------------
\* Bounds of the model
\* ------------------------------------------------------------------------
MaxTime == 60
TickStep == 30
MaxNet == 1
MaxStopped == 1
MaxSlowPeers == 1

\* ------------------------------------------------------------------------
\* Program constants
\* ------------------------------------------------------------------------
P2P_DISCOVERY_PORT == 9001
inactive_threshold == 30
max_retries == 2

\* ------------------------------------------------------------------------
\* Deployment: three nodes on one host, on consecutive discovery ports
\* starting at the configured one.  A and B run with the default (empty)
\* bootstrap list; C names B as its bootstrap node.  A broadcast hello
\* reaches the discovery sockets bound to the sender's port.
\* ------------------------------------------------------------------------
Node == {"A", "B", "C"}

HostOf(n) == "h1"

PortOf(n) ==
    IF n = "A" THEN P2P_DISCOVERY_PORT
    ELSE IF n = "B" THEN P2P_DISCOVERY_PORT + 1
    ELSE P2P_DISCOVERY_PORT + 2

SelfAddr(n) == <<HostOf(n), PortOf(n)>>

TransferAddr(n) == <<HostOf(n), PortOf(n) + 1>>

BOOTSTRAP_NODES == {}

bootstrap_nodes(n) == IF n = "C" THEN {SelfAddr("B")} ELSE BOOTSTRAP_NODES

AllAddr == {SelfAddr(n) : n \in Node}

\* the discovery address of a node on another host, which is none of the
\* three: nothing sent to it is received
Outsider == <<"h2", P2P_DISCOVERY_PORT>>

NodeAt(a) == CHOOSE n \in Node : SelfAddr(n) = a

\* ------------------------------------------------------------------------
\* Files: contents are byte strings, names are base names, a path is a
\* (directory, base name) pair.
\* ------------------------------------------------------------------------
None == "None"

\* the value of a path variable that holds no path
NoPath == <<>>

Contents == {<<>>, <<1>>, <<2>>}

Names == {"a", "b"}

\* the save_as arguments tried: the default and one explicit name
SaveNames == {None, "a"}

SaveDir == "dl"

basename(p) == p[2]

\* hashlib.sha256(bytes).hexdigest(): a function of the bytes alone, and
\* collision free on the contents of the model.
sha256(bytes) ==
    IF bytes = <<>> THEN "e3b0"
    ELSE IF bytes = <<1>> THEN "4bf5"
    ELSE IF bytes = <<2>> THEN "dbc1"
    ELSE "a128"

Hashes == {sha256(c) : c \in Contents}

\* what a file of one byte is changed to: emptied, or grown to two bytes
ChangedContents == {<<>>, <<1, 2>>}

ChangedHashes == {sha256(c) : c \in ChangedContents \cup {<<1>>}}

Paths == {"docs", SaveDir} \X Names

\* all three nodes start with a file of the same bytes, C under another
\* name; B has a second file
InitDisk(n) ==
    IF n = "C" THEN (<<"docs", "b">> :> <<1>>)
    ELSE IF n = "B" THEN (<<"docs", "a">> :> <<1>>) @@ (<<"docs", "b">> :> <<2>>)
    ELSE (<<"docs", "a">> :> <<1>>)

\* the files of n that hold the bytes common to the three nodes
CommonFiles(n) == {p \in DOMAIN InitDisk(n) : InitDisk(n)[p] = <<1>>}

\* the hashes of the files the nodes start with
InitHashes ==
    UNION {{sha256(InitDisk(n)[p]) : p \in DOMAIN InitDisk(n)} : n \in Node}

\* ------------------------------------------------------------------------
\* Dictionaries
\* ------------------------------------------------------------------------
Empty == <<>>

Put(f, k, v) == [x \in (DOMAIN f) \cup {k} |-> IF x = k THEN v ELSE f[x]]

Del(f, K) == [x \in (DOMAIN f) \ K |-> f[x]]

Range(s) == {s[i] : i \in DOMAIN s}

\* the position of x in the list s
Index(s, x) == CHOOSE i \in DOMAIN s : s[i] = x

Count(x, s) == Cardinality({i \in DOMAIN s : s[i] = x})

\* list.remove(x): removes the first occurrence of x
ListRemove(s, x) ==
    LET i == CHOOSE j \in DOMAIN s : s[j] = x /\ \A k \in 1..(j - 1) : s[k] # x
    IN  SubSeq(s, 1, i - 1) \o SubSeq(s, i + 1, Len(s))

VARIABLES now, running, peers, shared_files, local_files, disk, net, last, proc

vars == <<now, running, peers, shared_files, local_files, disk, net, last, proc>>

\* ------------------------------------------------------------------------
\* Peer management.  st is the pair of dictionaries a handler works on:
\* [peers |-> self.peers, shared_files |-> self.shared_files].
\* ------------------------------------------------------------------------

\* FileDirectory update shared by hello_response, announce_file and
\* share_file: create the record if the hash is unseen, append the address
\* if it is not in the list.
\* variant: the address is appended without the membership test
RecordPeerDup(sf, file_hash, file_name, addr) ==
    LET sf1 == IF file_hash \notin DOMAIN sf
               THEN Put(sf, file_hash, [peers |-> <<>>, name |-> file_name])
               ELSE sf
    IN  [sf1 EXCEPT ![file_hash].peers = Append(@, addr)]

\* variant: the name of an existing record is replaced by the sender's
RecordPeerRename(sf, file_hash, file_name, addr) ==
    LET sf1 == IF file_hash \notin DOMAIN sf
               THEN Put(sf, file_hash, [peers |-> <<>>, name |-> file_name])
               ELSE [sf EXCEPT ![file_hash].name = file_name]
    IN  IF addr \notin Range(sf1[file_hash].peers)
        THEN [sf1 EXCEPT ![file_hash].peers = Append(@, addr)]
        ELSE sf1

RecordPeer(sf, file_hash, file_name, addr) ==
    LET sf1 == IF file_hash \notin DOMAIN sf
               THEN Put(sf, file_hash, [peers |-> <<>>, name |-> file_name])
               ELSE sf
    IN  IF addr \notin Range(sf1[file_hash].peers)
        THEN [sf1 EXCEPT ![file_hash].peers = Append(@, addr)]
        ELSE sf1

\* variant: records left without peers are kept
_remove_peer_keep(st, peer) ==
    IF peer \in DOMAIN st.peers
    THEN [peers |-> Del(st.peers, {peer}),
          shared_files |-> [h \in DOMAIN st.shared_files |->
                              IF peer \in Range(st.shared_files[h].peers)
                              THEN [st.shared_files[h] EXCEPT !.peers = ListRemove(@, peer)]
                              ELSE st.shared_files[h]]]
    ELSE st

\* variant: every record that listed the peer is deleted
_remove_peer_all(st, peer) ==
    IF peer \in DOMAIN st.peers
    THEN [peers |-> Del(st.peers, {peer}),
          shared_files |-> Del(st.shared_files,
                               {h \in DOMAIN st.shared_files :
                                  peer \in Range(st.shared_files[h].peers)})]
    ELSE st

_remove_peer(st, peer) ==
    IF peer \in DOMAIN st.peers
    THEN LET stripped == [h \in DOMAIN st.shared_files |->
                            IF peer \in Range(st.shared_files[h].peers)
                            THEN [st.shared_files[h] EXCEPT !.peers = ListRemove(@, peer)]
                            ELSE st.shared_files[h]]
             files_to_remove == {h \in DOMAIN stripped :
                                   /\ peer \in Range(st.shared_files[h].peers)
                                   /\ stripped[h].peers = <<>>}
         IN  [peers |-> Del(st.peers, {peer}),
              shared_files |-> Del(stripped, files_to_remove)]
    ELSE st

RECURSIVE RemoveEach(_, _)
RemoveEach(st, S) ==
    IF S = {} THEN st
    ELSE LET p == CHOOSE x \in S : TRUE
         IN  RemoveEach(_remove_peer(st, p), S \ {p})

\* variant: a peer is expired from the threshold on
peers_to_remove_ge(st, current_time) ==
    {p \in DOMAIN st.peers : current_time - st.peers[p] >= inactive_threshold}

peers_to_remove(st, current_time) ==
    {p \in DOMAIN st.peers : current_time - st.peers[p] > inactive_threshold}

_cleanup_peers(st, current_time) ==
    RemoveEach(st, peers_to_remove(st, current_time))

\* ------------------------------------------------------------------------
\* Discovery message handlers.  self is the receiving node, addr the UDP
\* source address of the datagram.
\* ------------------------------------------------------------------------
\* variant: no address is taken for the node's own
IsSelfNever(self, addr) == FALSE

IsSelf(self, addr) == addr[1] = HostOf(self) /\ addr[2] = PortOf(self)

_handle_hello_message(st, self, addr, t) ==
    IF IsSelf(self, addr) THEN st
    ELSE [st EXCEPT !.peers = Put(@, addr, t)]

\* variant: the hello_response lists no file
ResponseFilesNone(lf) == Empty

\* the files map of the hello_response: {hash: info['name']}
ResponseFiles(lf) == [h \in DOMAIN lf |-> lf[h].name]

\* variant: the hello_response lists the FileDirectory of the node, the
\* files it has heard of included
HelloResponseRelay(self, addr, lf) ==
    IF IsSelf(self, addr) THEN {}
    ELSE {[type |-> "hello_response", src |-> SelfAddr(self), dst |-> addr,
           files |-> [h \in DOMAIN shared_files[self] |-> shared_files[self][h].name],
           file_hash |-> None, file_name |-> None]}

HelloResponse(self, addr, lf) ==
    IF IsSelf(self, addr) THEN {}
    ELSE {[type |-> "hello_response", src |-> SelfAddr(self), dst |-> addr,
           files |-> ResponseFiles(lf), file_hash |-> None, file_name |-> None]}

RECURSIVE RecordAll(_, _, _, _)
RecordAll(sf, files, S, addr) ==
    IF S = {} THEN sf
    ELSE LET h == CHOOSE x \in S : TRUE
         IN  RecordAll(RecordPeer(sf, h, files[h], addr), files, S \ {h}, addr)

_handle_hello_response(st, self, addr, files, t) ==
    IF IsSelf(self, addr) THEN st
    ELSE [peers |-> Put(st.peers, addr, t),
          shared_files |-> RecordAll(st.shared_files, files, DOMAIN files, addr)]

\* variant: the sender of an announcement is recorded as seen now
_handle_file_announcement_seen(st, addr, file_hash, file_name) ==
    [peers |-> Put(st.peers, addr, now),
     shared_files |-> RecordPeer(st.shared_files, file_hash, file_name, addr)]

\* variant: the sender is appended without the membership test
_handle_file_announcement_dup(st, addr, file_hash, file_name) ==
    [st EXCEPT !.shared_files =
        LET sf1 == IF file_hash \notin DOMAIN @
                   THEN Put(@, file_hash, [peers |-> <<>>, name |-> file_name])
                   ELSE @
        IN  [sf1 EXCEPT ![file_hash].peers = Append(@, addr)]]

_handle_file_announcement(st, addr, file_hash, file_name) ==
    [st EXCEPT !.shared_files = RecordPeer(@, file_hash, file_name, addr)]

\* dispatch of _discovery_loop on message['type']
Dispatch(st, self, m, t) ==
    IF m.type = "hello" THEN _handle_hello_message(st, self, m.src, t)
    ELSE IF m.type = "hello_response" THEN _handle_hello_response(st, self, m.src, m.files, t)
    ELSE IF m.type = "announce_file" THEN _handle_file_announcement(st, m.src, m.file_hash, m.file_name)
    ELSE IF m.type = "goodbye" THEN _remove_peer(st, m.src)
    ELSE st

NodeState(n) == [peers |-> peers[n], shared_files |-> shared_files[n]]

\* ------------------------------------------------------------------------
\* Datagrams
\* ------------------------------------------------------------------------
Hello(n, dst) ==
    [type |-> "hello", src |-> SelfAddr(n), dst |-> dst,
     files |-> Empty, file_hash |-> None, file_name |-> None]

Goodbye(n, dst) ==
    [type |-> "goodbye", src |-> SelfAddr(n), dst |-> dst,
     files |-> Empty, file_hash |-> None, file_name |-> None]

Announce(n, dst, file_hash, file_name) ==
    [type |-> "announce_file", src |-> SelfAddr(n), dst |-> dst,
     files |-> Empty, file_hash |-> file_hash, file_name |-> file_name]

\* variant: a bootstrap node is announced to whether or not it is a peer
_announce_file_unfiltered(ps, bs) ==
    [a \in ps \cup bs |-> (IF a \in ps THEN 1 ELSE 0) + (IF a \in bs THEN 1 ELSE 0)]

\* _announce_file with the keys ps of self.peers and the bootstrap nodes
\* bs: per address, the number of calls of sendto with the announce_file.
\* Each call is in a try of its own, so a call that raises ends neither
\* loop.
_announce_file(ps, bs) ==
    [a \in ps \cup bs |-> (IF a \in ps THEN 1 ELSE 0)
                           + (IF a \in bs /\ a \notin ps THEN 1 ELSE 0)]

\* the value of a datagram variable that holds no datagram
NoMsg ==
    [type |-> None, src |-> <<>>, dst |-> <<>>,
     files |-> Empty, file_hash |-> None, file_name |-> None]

\* Datagrams that no node of the model sends: bytes that are not JSON, a
\* JSON object without type, a type the dispatch does not know, and an
\* announce_file that lacks file_hash or file_name.  They reach n from the
\* address src.
Stray(n, src) ==
    {[NoMsg EXCEPT !.type = k, !.src = src, !.dst = SelfAddr(n)] :
        k \in {"not_json", "no_type", "unknown"}}
    \cup {[NoMsg EXCEPT !.type = "announce_file", !.src = src, !.dst = SelfAddr(n),
                        !.file_name = "a"],
          [NoMsg EXCEPT !.type = "announce_file", !.src = src, !.dst = SelfAddr(n),
                        !.file_hash = sha256(<<1>>)]}

\* variant: no datagram makes the iteration raise
RaisesNever(m) == FALSE

\* the iteration of _discovery_loop raises on m before a handler has
\* changed anything: in json.loads, in message['type'], or in the
\* assertions of _handle_file_announcement
Raises(m) ==
    \/ m.type \in {"not_json", "no_type"}
    \/ m.type = "announce_file" /\ (m.file_hash = None \/ m.file_name = None)

\* the destination of the broadcast of discover_peers
BroadcastAddr(n) == <<"<broadcast>", PortOf(n)>>

\* discover_peers: per destination, the number of calls of sendto with
\* the hello; every call is in a try of its own
HelloSends(n) == [a \in bootstrap_nodes(n) \cup {BroadcastAddr(n)} |-> 1]

\* the nodes whose discovery socket receives a broadcast on the port
BroadcastTargets(port) == {SelfAddr(m) : m \in {x \in Node : PortOf(x) = port}}

\* A datagram handed to sendto is delivered later, or lost: it is lost at
\* once when no running node is bound to the destination.
Deliverable(msgs) == {m \in msgs : m.dst \in AllAddr /\ running[NodeAt(m.dst)]}

Sendto(msgs, netBefore, netAfter) ==
    \E sent \in SUBSET Deliverable(msgs) :
        /\ Cardinality(netBefore \cup sent) <= MaxNet
        /\ netAfter = netBefore \cup sent

\* ------------------------------------------------------------------------
\* File transfer, client side
\* ------------------------------------------------------------------------
Error(cls, msg) == [cls |-> cls, msg |-> msg]

NoError == Error(None, None)

\* the address handed to sock.connect for a candidate peer
ConnectAddr(peer) == peer

\* the running node whose transfer socket listens on address a, if any
Listeners(a) == {m \in Node : running[m] /\ TransferAddr(m) = a}

Repeat(x, k) == [i \in 1..k |-> x]

\* what a transfer handler sent on a connection: the type and message of
\* the JSON record, the bytes after it, and whether it closed the socket
Reply(type, message, data) ==
    [type |-> type, message |-> message, data |-> data, closed |-> TRUE]

\* the value of a reply variable when no handler was reached
NoReply == [type |-> None, message |-> None, data |-> <<>>, closed |-> FALSE]

\* variant: the blocks of the file are sent last first
_handle_file_request_backwards(m, file_hash) ==
    IF file_hash \notin DOMAIN local_files[m]
    THEN Reply("error", "File not found", <<>>)
    ELSE LET data == disk[m][local_files[m][file_hash].path]
         IN  Reply("file_data", None, [i \in 1..Len(data) |-> data[Len(data) + 1 - i]])

\* _handle_transfer_request and _handle_file_request on node m for a
\* file_request naming file_hash
_handle_file_request(m, file_hash) ==
    IF file_hash \notin DOMAIN local_files[m]
    THEN Reply("error", "File not found", <<>>)
    ELSE Reply("file_data", None, disk[m][local_files[m][file_hash].path])

\* What the network does to the connections to one candidate: the number
\* of attempts that time out in connect or while waiting for the header,
\* and whether a recv of the read loop times out on the attempt that gets
\* that far: "first" before any byte has arrived, "later" after the first
\* byte (before the close when the file has no byte), "none" not at all.
\* With "merged" nothing times out and the first segment that reaches the
\* client carries the header together with the first bytes of the file:
\* the server sends both back to back.
Link(timeouts, stall) == [timeouts |-> timeouts, stall |-> stall]

\* what the recv calls of the read loop return, one after the other
Event(kind, byte) == [kind |-> kind, byte |-> byte]

DataEvents(data) == [i \in 1..Len(data) |-> Event("data", data[i])]

Stream(data, stall) ==
    IF stall = "first"
    THEN <<Event("timeout", 0)>> \o DataEvents(data) \o <<Event("close", 0)>>
    ELSE IF stall = "later"
    THEN IF data = <<>>
         THEN <<Event("timeout", 0), Event("close", 0)>>
         ELSE <<Event("data", data[1]), Event("timeout", 0)>>
                \o DataEvents(Tail(data)) \o <<Event("close", 0)>>
    ELSE DataEvents(data) \o <<Event("close", 0)>>

\* variant: a timeout ends the read loop whatever has been received
RECURSIVE ReadLoopStrict(_, _)
ReadLoopStrict(events, written) ==
    IF Head(events).kind = "close" THEN [written |-> written, timeout |-> FALSE]
    ELSE IF Head(events).kind = "timeout" THEN [written |-> written, timeout |-> TRUE]
    ELSE ReadLoopStrict(Tail(events), Append(written, Head(events).byte))

\* the read loop: `written` is what f.write has received so far; the loop
\* ends when recv returns no byte (close) or when a timeout is raised with
\* total_bytes = 0
RECURSIVE ReadLoop(_, _)
ReadLoop(events, written) ==
    IF Head(events).kind = "close" THEN [written |-> written, timeout |-> FALSE]
    ELSE IF Head(events).kind = "timeout"
    THEN IF Len(written) = 0
         THEN [written |-> written, timeout |-> TRUE]
         ELSE ReadLoop(Tail(events), written)
    ELSE ReadLoop(Tail(events), Append(written, Head(events).byte))

\* variant: every failed attempt is retried
RetryAll(cause) == TRUE

\* the exception classes after which the loop over the attempts goes on
Retry(cause) == cause = "socket.timeout"

\* The attempt of _download_from_peer that does not time out in connect
\* or on the header.  dk is the disk of n when it starts.  `closed` tells
\* that the read loop ended on the close of the peer, `received` what was
\* written by then.
Attempt(n, dk, target, file_hash, save_path, stall) ==
    IF Listeners(target) = {}
    THEN [ok |-> FALSE, cause |-> "ConnectionRefusedError", msg |-> "refused",
          disk |-> dk, dest |-> NoPath, received |-> <<>>, closed |-> FALSE,
          reply |-> NoReply]
    ELSE LET m == CHOOSE x \in Listeners(target) : TRUE
             response == _handle_file_request(m, file_hash)
         IN  IF stall = "merged" /\ response.data # <<>>
             THEN \* json.loads on the header followed by file bytes
                  [ok |-> FALSE, cause |-> "Exception", msg |-> "extra data",
                   disk |-> dk, dest |-> NoPath, received |-> <<>>, closed |-> FALSE,
                   reply |-> response]
             ELSE IF response.type # "file_data"
             THEN [ok |-> FALSE, cause |-> "Exception", msg |-> "unexpected response type",
                   disk |-> dk, dest |-> NoPath, received |-> <<>>, closed |-> FALSE,
                   reply |-> response]
             ELSE LET rd == ReadLoop(Stream(response.data, stall), <<>>)
                      total_bytes == Len(rd.written)
                  IN  IF rd.timeout
                      THEN [ok |-> FALSE, cause |-> "Exception",
                            msg |-> "timeout while receiving file data",
                            disk |-> Put(dk, save_path, rd.written), dest |-> save_path,
                            received |-> rd.written, closed |-> FALSE,
                            reply |-> response]
                      ELSE IF total_bytes = 0
                      THEN [ok |-> FALSE, cause |-> "Exception", msg |-> "no data received",
                            disk |-> Put(dk, save_path, <<>>), dest |-> save_path,
                            received |-> rd.written, closed |-> TRUE,
                            reply |-> response]
                      ELSE IF sha256(rd.written) # file_hash
                      THEN [ok |-> FALSE, cause |-> "Exception",
                            msg |-> "hash verification failed",
                            disk |-> Del(dk, {save_path}), dest |-> save_path,
                            received |-> rd.written, closed |-> TRUE,
                            reply |-> response]
                      ELSE [ok |-> TRUE, cause |-> None, msg |-> None,
                            disk |-> Put(dk, save_path, rd.written), dest |-> save_path,
                            received |-> rd.written, closed |-> TRUE,
                            reply |-> response]

\* One call of _download_from_peer by node n.  dk is the disk of n when the
\* call starts, link what the network does.  conns lists the addresses
\* handed to connect, sleeps counts the calls of time.sleep.
_download_from_peer(n, dk, peer, file_hash, save_as, link) ==
    LET target == ConnectAddr(peer)
        name == IF save_as = None THEN shared_files[n][file_hash].name ELSE save_as
        save_path == <<SaveDir, name>>
    IN  IF link.timeouts > max_retries
        THEN [ok |-> FALSE, path |-> NoPath, disk |-> dk, dest |-> NoPath,
              conns |-> Repeat(target, max_retries + 1), sleeps |-> max_retries,
              received |-> <<>>, closed |-> FALSE, reply |-> NoReply,
              err |-> Error("Exception", "timed out")]
        ELSE LET a == Attempt(n, dk, target, file_hash, save_path, link.stall)
                 again == ~a.ok /\ Retry(a.cause)
             IN  [ok |-> a.ok, path |-> IF a.ok THEN save_path ELSE NoPath,
                  disk |-> a.disk, dest |-> a.dest,
                  conns |-> Repeat(target, IF again THEN max_retries + 1
                                           ELSE link.timeouts + 1),
                  sleeps |-> IF again THEN max_retries ELSE link.timeouts,
                  received |-> a.received, closed |-> a.closed, reply |-> a.reply,
                  err |-> IF a.ok THEN NoError ELSE Error("Exception", a.msg)]

\* the addresses that occur in a FileRecord of node n
Listed(n) == UNION {Range(shared_files[n][h].peers) : h \in DOMAIN shared_files[n]}

\* what is remembered of the try of one candidate: stale holds the
\* candidates that failed before and are, when this try starts, still a key
\* of peers or listed in a FileRecord
Try(n, peer, r, link, failed_peers) ==
    [peer |-> peer, conns |-> r.conns, dest |-> r.dest, err |-> r.err.msg,
     link |-> link, sleeps |-> r.sleeps, received |-> r.received, closed |-> r.closed,
     reply |-> r.reply,
     stale |-> failed_peers \cap (DOMAIN peers[n] \cup Listed(n))]

\* variant: the first candidate that fails ends the call
RECURSIVE TryPeersStop(_, _, _, _, _, _, _, _, _, _)
TryPeersStop(n, cands, i, dk, file_hash, save_as, timeouts, tries, failed_peers, last_error) ==
    LET r == _download_from_peer(n, dk, cands[i], file_hash, save_as, timeouts[i])
        try == Try(n, cands[i], r, timeouts[i], failed_peers)
    IN  IF r.ok
        THEN [result |-> "ok", path |-> r.path, disk |-> r.disk,
              tries |-> Append(tries, try), err |-> NoError, st |-> NodeState(n)]
        ELSE [result |-> "failed", path |-> NoPath, disk |-> r.disk,
              tries |-> Append(tries, try), err |-> r.err,
              st |-> RemoveEach(NodeState(n), {cands[i]} \cap DOMAIN peers[n])]

\* variant: a hash mismatch is not caught and reaches the caller
RECURSIVE TryPeersLeak(_, _, _, _, _, _, _, _, _, _)
TryPeersLeak(n, cands, i, dk, file_hash, save_as, timeouts, tries, failed_peers, last_error) ==
    IF i > Len(cands)
    THEN [result |-> "failed", path |-> NoPath, disk |-> dk, tries |-> tries,
          err |-> last_error,
          st |-> RemoveEach(NodeState(n), failed_peers \cap DOMAIN peers[n])]
    ELSE LET r == _download_from_peer(n, dk, cands[i], file_hash, save_as, timeouts[i])
             try == Try(n, cands[i], r, timeouts[i], failed_peers)
         IN  IF r.ok
             THEN [result |-> "ok", path |-> r.path, disk |-> r.disk,
                   tries |-> Append(tries, try), err |-> NoError, st |-> NodeState(n)]
             ELSE IF r.err.msg = "hash verification failed"
             THEN [result |-> "error", path |-> NoPath, disk |-> r.disk,
                   tries |-> Append(tries, try), err |-> r.err, st |-> NodeState(n)]
             ELSE TryPeersLeak(n, cands, i + 1, r.disk, file_hash, save_as, timeouts,
                               Append(tries, try), failed_peers \cup {cands[i]}, r.err)

\* the loop of request_file over the copy of the candidate list, from
\* candidate i on, and what follows it
RECURSIVE TryPeers(_, _, _, _, _, _, _, _, _, _)
TryPeers(n, cands, i, dk, file_hash, save_as, timeouts, tries, failed_peers, last_error) ==
    IF i > Len(cands)
    THEN [result |-> "failed", path |-> NoPath, disk |-> dk, tries |-> tries,
          err |-> last_error,
          st |-> RemoveEach(NodeState(n), failed_peers \cap DOMAIN peers[n])]
    ELSE LET r == _download_from_peer(n, dk, cands[i], file_hash, save_as, timeouts[i])
             try == Try(n, cands[i], r, timeouts[i], failed_peers)
         IN  IF r.ok
             THEN [result |-> "ok", path |-> r.path, disk |-> r.disk,
                   tries |-> Append(tries, try), err |-> NoError, st |-> NodeState(n)]
             ELSE TryPeers(n, cands, i + 1, r.disk, file_hash, save_as, timeouts,
                           Append(tries, try),
                           IF r.err.cls # "socket.timeout"
                           THEN failed_peers \cup {cands[i]} ELSE failed_peers,
                           r.err)

Reverse(s) == [i \in 1..Len(s) |-> s[Len(s) + 1 - i]]

\* variant: the candidates are tried from the last recorded to the first
request_file_reversed(n, file_hash, save_as, timeouts) ==
    IF file_hash \notin DOMAIN shared_files[n]
    THEN [result |-> "not_found", path |-> NoPath, disk |-> disk[n], tries |-> <<>>,
          err |-> Error("AssertionError", "not found in network"), st |-> NodeState(n)]
    ELSE TryPeers(n, Reverse(shared_files[n][file_hash].peers), 1, disk[n], file_hash,
                  save_as, timeouts, <<>>, {}, NoError)

request_file(n, file_hash, save_as, timeouts) ==
    IF file_hash \notin DOMAIN shared_files[n]
    THEN [result |-> "not_found", path |-> NoPath, disk |-> disk[n], tries |-> <<>>,
          err |-> Error("AssertionError", "not found in network"), st |-> NodeState(n)]
    ELSE LET cands == shared_files[n][file_hash].peers
         IN  IF cands = <<>>
             THEN [result |-> "no_peers", path |-> NoPath, disk |-> disk[n], tries |-> <<>>,
                   err |-> Error("Exception", "no peers available"), st |-> NodeState(n)]
             ELSE TryPeers(n, cands, 1, disk[n], file_hash, save_as, timeouts,
                           <<>>, {}, NoError)

\* ------------------------------------------------------------------------
\* The last operation: which call or handler ran (op), on which node, on
\* which hash.
\*   msg      the datagram a discovery handler processed
\*   evicted  the addresses the step removed from the node's peers
\*   deleted  the hashes whose FileRecord the step deleted
\*   again    share_file: the node shared these bytes before (their hash
\*            is a key of local_files; sha256 has no collision on the
\*            contents of the model);
\*            request_file: the step before was a discovery step of this
\*            node that deleted the FileRecord of the requested hash
\*   result, path, err
\*            request_file: the outcome, the path returned, the error raised
\*   sent     the datagrams handed to sendto by stop (goodbyes) and by the
\*            hello handler (hello_response)
\*   sends    share_file: per address, the number of calls of sendto
\*   cands    request_file: its copy of the candidate list
\*   tries    request_file: per candidate tried, the addresses connected
\*            to, the destination file opened and the candidate's error
\* ------------------------------------------------------------------------
DiscoveryOps == {"hello", "hello_response", "announce_file", "goodbye"}

Last(op, n) ==
    [op |-> op, node |-> n, hash |-> None, msg |-> NoMsg, evicted |-> {},
     deleted |-> {}, again |-> FALSE, result |-> None, path |-> NoPath,
     cands |-> <<>>, tries |-> <<>>, err |-> None, sent |-> {}, sends |-> Empty]

\* ------------------------------------------------------------------------
\* Initial state: every node constructed, nothing shared, no datagram in
\* flight (the hellos of the constructor are lost or not yet sent).
\* ------------------------------------------------------------------------
\* variant: the flag is cleared before the goodbyes are sent
StopOrderClearFirst == <<"clear", "goodbye", "close_discovery", "close_transfer", "join">>

\* A thread followed statement by statement: pc is the statement it is
\* at ("idle" between calls), op the call it is in, and the rest are the
\* local variables of share_file, _announce_file, request_file and
\* _remove_peer:
\*   hash, path       file_hash and file_path
\*   peer             the argument of _remove_peer
\*   held             the hashes whose FileRecord listed that peer alone
\*                    when _remove_peer was called
\*   raced            that this call and the other thread were inside
\*                    _remove_peer for the same peer at the same time
\*   size             the size of the dictionary when the running for loop
\*                    over it started
\*   targets          the keys of peers the loop of _announce_file has not
\*                    reached
\*   todo, cur        the keys of shared_files the loop of _remove_peer
\*                    has not reached, and the one it is at
\*   files_to_remove  as in the source
\*   queue            the part of failed_peers not yet reached
\*   dels             the number of times the call deleted a key of peers
\*   err              the exception that ended the call, done that it ended
ThreadInit ==
    [pc |-> "idle", op |-> None, hash |-> None, path |-> NoPath, peer |-> <<>>,
     size |-> 0, targets |-> {}, todo |-> {}, cur |-> None, files_to_remove |-> {},
     queue |-> <<>>, dels |-> 0, err |-> None, done |-> FALSE, held |-> {},
     raced |-> FALSE]

Threads == {"caller", "discovery"}

\* the statements of stop(), in the order of the source
StopOrder == <<"goodbye", "clear", "close_discovery", "close_transfer", "join">>

\* a node's sockets and threads after construction: stop() not called,
\* both sockets open, the discovery thread waiting in recvfrom and the
\* transfer thread in accept
\* startup is the statement of __init__ still to run, periodic the
\* position of the periodic discovery thread ("any" where it is not
\* followed and discover_peers may be called at any time), wake the time
\* at which its sleep ends, calls the times at which discover_peers was
\* entered.  request is the position of the thread that calls
\* request_file where the call is followed ("idle": no call is running,
\* "called": the call has started, "reading": it is in the read loop of
\* _download_from_peer with total_bytes > 0), request_hash its argument,
\* waits the number of recv calls that timed out in that loop, modulo 2.
\* caller and discovery are the two threads where they are followed
\* statement by statement.
InitProc ==
    [pc |-> 0, goodbye |-> FALSE,
     discovery_socket |-> "open", transfer_socket |-> "open",
     discovery_thread |-> "recvfrom", transfer_thread |-> "accept",
     startup |-> "done", periodic |-> "any", wake |-> 0, calls |-> <<>>,
     request |-> "idle", request_hash |-> None, waits |-> 0,
     caller |-> ThreadInit, discovery |-> ThreadInit]

\* a node inside __init__, when _start_threads has returned: the periodic
\* thread is at the test of its loop, discover_peers is still to be called
StartProc == [InitProc EXCEPT !.startup = "discover_peers", !.periodic = "test"]

\* the period of _periodic_discovery
discovery_period == 30

Init ==
    /\ now = 0
    /\ running = [n \in Node |-> TRUE]
    /\ peers = [n \in Node |-> Empty]
    /\ shared_files = [n \in Node |-> Empty]
    /\ local_files = [n \in Node |-> Empty]
    /\ disk = [n \in Node |-> InitDisk(n)]
    /\ net = {}
    /\ last = Last("init", None)
    /\ proc = [n \in Node |-> InitProc]

\* as Init, with C inside its constructor
InitStartup ==
    /\ now = 0
    /\ running = [n \in Node |-> TRUE]
    /\ peers = [n \in Node |-> Empty]
    /\ shared_files = [n \in Node |-> Empty]
    /\ local_files = [n \in Node |-> Empty]
    /\ disk = [n \in Node |-> InitDisk(n)]
    /\ net = {}
    /\ last = Last("init", None)
    /\ proc = [n \in Node |-> IF n = "C" THEN StartProc ELSE InitProc]

\* ------------------------------------------------------------------------
\* Actions
\* ------------------------------------------------------------------------

\* time.time() advances
\* variant: the clock step also runs the sweep on every node
TickSweep ==
    /\ now + TickStep <= MaxTime
    /\ now' = now + TickStep
    /\ peers' = [n \in Node |-> _cleanup_peers(NodeState(n), now + TickStep).peers]
    /\ shared_files' = [n \in Node |->
                          _cleanup_peers(NodeState(n), now + TickStep).shared_files]
    /\ last' = Last("tick", None)
    /\ UNCHANGED <<running, local_files, disk, net, proc>>

Tick ==
    /\ now + TickStep <= MaxTime
    /\ now' = now + TickStep
    /\ last' = Last("tick", None)
    /\ UNCHANGED <<running, peers, shared_files, local_files, disk, net, proc>>

\* the user changes the bytes of one of the files the node started with;
\* each file is changed at most once
EditFile(n, path, bytes) ==
    /\ path \in DOMAIN InitDisk(n)
    /\ disk[n][path] = InitDisk(n)[path]
    /\ disk[n][path] # bytes
    /\ disk' = [disk EXCEPT ![n] = Put(@, path, bytes)]
    /\ last' = Last("edit", n)
    /\ UNCHANGED <<now, running, peers, shared_files, local_files, net, proc>>

discover_peers(n) ==
    /\ running[n]
    /\ Sendto({Hello(n, d) : d \in bootstrap_nodes(n) \cup BroadcastTargets(PortOf(n))},
              net, net')
    /\ last' = [Last("discover_peers", n) EXCEPT !.sends = HelloSends(n)]
    /\ UNCHANGED <<now, running, peers, shared_files, local_files, disk, proc>>

\* the hellos of one call of discover_peers by thread `by`: nothing
\* leaves a socket that stop() has closed
DiscoverPeers(n, by) ==
    /\ Sendto(IF proc[n].discovery_socket = "open"
              THEN {Hello(n, d) : d \in bootstrap_nodes(n) \cup BroadcastTargets(PortOf(n))}
              ELSE {}, net, net')
    /\ last' = [Last(by, n) EXCEPT
                  !.sends = HelloSends(n),
                  !.sent = IF proc[n].discovery_socket = "open"
                           THEN {Hello(n, d) : d \in bootstrap_nodes(n)
                                                     \cup BroadcastTargets(PortOf(n))}
                           ELSE {}]

\* the call of discover_peers at the end of __init__
init_discover_peers(n) ==
    /\ proc[n].startup = "discover_peers"
    /\ DiscoverPeers(n, "__init__")
    /\ proc' = [proc EXCEPT ![n].startup = "done", ![n].calls = Append(@, now)]
    /\ UNCHANGED <<now, running, peers, shared_files, local_files, disk>>

\* _periodic_discovery: the test of the while loop
_periodic_discovery_test(n) ==
    /\ proc[n].periodic = "test"
    /\ proc' = [proc EXCEPT ![n].periodic = IF running[n] THEN "call" ELSE "exited"]
    /\ last' = Last("_periodic_discovery_test", n)
    /\ UNCHANGED <<now, running, peers, shared_files, local_files, disk, net>>

\* _periodic_discovery: the call of discover_peers, and the start of the
\* sleep
_periodic_discovery_call(n) ==
    /\ proc[n].periodic = "call"
    /\ DiscoverPeers(n, "_periodic_discovery")
    /\ proc' = [proc EXCEPT ![n].periodic = "sleep", ![n].wake = now + discovery_period,
                             ![n].calls = Append(@, now)]
    /\ UNCHANGED <<now, running, peers, shared_files, local_files, disk>>

\* _periodic_discovery: time.sleep(30) returns
_periodic_discovery_wake(n) ==
    /\ proc[n].periodic = "sleep"
    /\ now >= proc[n].wake
    /\ proc' = [proc EXCEPT ![n].periodic = "test"]
    /\ last' = Last("_periodic_discovery_wake", n)
    /\ UNCHANGED <<now, running, peers, shared_files, local_files, disk, net>>

\* a thread of n that is followed has a statement to run now
Runnable(n) ==
    \/ proc[n].startup # "done"
    \/ proc[n].periodic \in {"test", "call"}
    \/ proc[n].periodic = "sleep" /\ now >= proc[n].wake

\* time passes while every thread that is followed sleeps or has ended
TickAsleep ==
    /\ \A n \in Node : ~Runnable(n)
    /\ Tick

\* a node outside the model sends a hello to the discovery address of n
outside_hello(n) ==
    /\ running[n]
    /\ \E m \in {[Hello(n, SelfAddr(n)) EXCEPT !.src = Outsider]} :
         /\ Cardinality(net \cup {m}) <= MaxNet
         /\ net' = net \cup {m}
    /\ last' = Last("outside_hello", n)
    /\ UNCHANGED <<now, running, peers, shared_files, local_files, disk, proc>>

\* one iteration of _discovery_loop: receive m, dispatch, sweep
_discovery_loop(n, m) ==
    /\ running[n]
    /\ m \in net
    /\ m.dst = SelfAddr(n)
    /\ \E st1 \in {Dispatch(NodeState(n), n, m, now)} :
         \E st2 \in {_cleanup_peers(st1, now)} :
           /\ peers' = [peers EXCEPT ![n] = st2.peers]
           /\ shared_files' = [shared_files EXCEPT ![n] = st2.shared_files]
           /\ last' = [Last(m.type, n) EXCEPT
                         !.msg = m,
                         !.sent = IF m.type = "hello"
                                  THEN HelloResponse(n, m.src, local_files[n]) ELSE {},
                         !.evicted = (DOMAIN peers[n] \cup DOMAIN st1.peers) \ DOMAIN st2.peers,
                         !.deleted = (DOMAIN shared_files[n] \cup DOMAIN st1.shared_files)
                                        \ DOMAIN st2.shared_files]
    /\ Sendto(IF m.type = "hello" THEN HelloResponse(n, m.src, local_files[n]) ELSE {},
              net \ {m}, net')
    /\ UNCHANGED <<now, running, local_files, disk, proc>>

\* one iteration of _discovery_loop on a stray datagram m: when it raises,
\* the except clause logs and the loop goes on, without the sweep
_discovery_loop_stray(n, m) ==
    /\ running[n]
    /\ \E st1 \in {IF Raises(m) THEN NodeState(n) ELSE Dispatch(NodeState(n), n, m, now)} :
         \E st2 \in {IF Raises(m) THEN st1 ELSE _cleanup_peers(st1, now)} :
           /\ peers' = [peers EXCEPT ![n] = st2.peers]
           /\ shared_files' = [shared_files EXCEPT ![n] = st2.shared_files]
           /\ last' = [Last("stray", n) EXCEPT
                         !.msg = m,
                         !.evicted = DOMAIN peers[n] \ DOMAIN st2.peers,
                         !.deleted = DOMAIN shared_files[n] \ DOMAIN st2.shared_files]
    /\ UNCHANGED <<now, running, local_files, disk, net, proc>>

\* the files shared are those the node started with
share_file(n, file_path) ==
    /\ running[n]
    /\ file_path \in DOMAIN InitDisk(n)
    /\ LET file_hash == sha256(disk[n][file_path])
           file_name == basename(file_path)
           sends == _announce_file(DOMAIN peers[n], bootstrap_nodes(n))
           targets == {a \in DOMAIN sends : sends[a] > 0}
       IN  /\ local_files' = [local_files EXCEPT
                                ![n] = Put(@, file_hash, [path |-> file_path, name |-> file_name])]
           /\ Sendto({Announce(n, d, file_hash, file_name) : d \in targets}, net, net')
           /\ shared_files' = [shared_files EXCEPT
                                 ![n] = RecordPeer(@, file_hash, file_name, SelfAddr(n))]
           /\ last' = [Last("share_file", n) EXCEPT
                         !.hash = file_hash, !.path = file_path, !.sends = sends,
                         !.again = file_hash \in DOMAIN local_files[n]]
    /\ UNCHANGED <<now, running, peers, disk, proc>>

\* for one candidate: the connection is answered at once, after one
\* timeout, or times out on every attempt
TimeoutChoices == {Link(k, "none") : k \in {0, 1, max_retries + 1}}

\* every connection is answered at once
NoTimeout == {Link(0, "none")}

\* as TimeoutChoices, or a recv of the read loop times out
StallChoices ==
    TimeoutChoices \cup {Link(0, "first"), Link(0, "later"), Link(0, "merged")}

\* the patterns tried for a candidate list of length k
Timeouts(k, choices) == {t \in [1..k -> choices] :
                  Cardinality({i \in 1..k : t[i] # Link(0, "none")}) <= MaxSlowPeers}

RequestFileCall(n, file_hash, save_as, choices) ==
    /\ running[n]
    /\ \E timeouts \in Timeouts(IF file_hash \in DOMAIN shared_files[n]
                                  THEN Len(shared_files[n][file_hash].peers) ELSE 0,
                              choices) :
         \E r \in {request_file(n, file_hash, save_as, timeouts)} :
             /\ peers' = [peers EXCEPT ![n] = r.st.peers]
             /\ shared_files' = [shared_files EXCEPT ![n] = r.st.shared_files]
             /\ disk' = [disk EXCEPT ![n] = r.disk]
             /\ last' = [Last("request_file", n) EXCEPT
                           !.hash = file_hash, !.result = r.result,
                           !.path = r.path, !.tries = r.tries, !.err = r.err.msg,
                           !.cands = IF file_hash \in DOMAIN shared_files[n]
                                     THEN shared_files[n][file_hash].peers ELSE <<>>,
                           !.evicted = DOMAIN peers[n] \ DOMAIN r.st.peers,
                           !.deleted = DOMAIN shared_files[n] \ DOMAIN r.st.shared_files,
                           !.again = /\ last.node = n
                                     /\ last.op \in DiscoveryOps
                                     /\ file_hash \in last.deleted]
    /\ UNCHANGED <<now, running, local_files, net>>

\* one call of request_file, from the call to the return or the raise
RequestFile(n, file_hash, save_as, choices) ==
    /\ RequestFileCall(n, file_hash, save_as, choices)
    /\ UNCHANGED proc

\* request_file followed from the call on: the caller enters request_file
request_file_enter(n, file_hash) ==
    /\ running[n]
    /\ proc[n].request = "idle"
    /\ proc' = [proc EXCEPT ![n].request = "called", ![n].request_hash = file_hash]
    /\ last' = [Last("request_file_enter", n) EXCEPT !.hash = file_hash]
    /\ UNCHANGED <<now, running, peers, shared_files, local_files, disk, net>>

\* the call returns a path or raises: every candidate tried refuses, times
\* out, answers with an error, or closes the connection at some point
request_file_leave(n) ==
    /\ proc[n].request = "called"
    /\ RequestFileCall(n, proc[n].request_hash, None, StallChoices)
    /\ proc' = [proc EXCEPT ![n].request = "idle", ![n].request_hash = None]

\* the first candidate is served by a peer that sends the header and the
\* first byte of a file and then neither sends nor closes: the call is in
\* the read loop with total_bytes = 1
request_file_stalled(n) ==
    /\ proc[n].request = "called"
    /\ proc[n].request_hash \in DOMAIN shared_files[n]
    /\ shared_files[n][proc[n].request_hash].peers # <<>>
    /\ \E m \in Listeners(ConnectAddr(Head(shared_files[n][proc[n].request_hash].peers))) :
         /\ _handle_file_request(m, proc[n].request_hash).type = "file_data"
         /\ _handle_file_request(m, proc[n].request_hash).data # <<>>
    /\ proc' = [proc EXCEPT ![n].request = "reading"]
    /\ last' = [Last("request_file_stalled", n) EXCEPT !.hash = proc[n].request_hash]
    /\ UNCHANGED <<now, running, peers, shared_files, local_files, disk, net>>

\* in the read loop with total_bytes > 0, recv raises socket.timeout: the
\* handler continues the loop
read_loop_timeout(n) ==
    /\ proc[n].request = "reading"
    /\ proc' = [proc EXCEPT ![n].waits = 1 - @]
    /\ last' = [Last("read_loop_timeout", n) EXCEPT !.hash = proc[n].request_hash]
    /\ UNCHANGED <<now, running, peers, shared_files, local_files, disk, net>>

\* ------------------------------------------------------------------------
\* share_file, request_file and _remove_peer statement by statement.  A
\* step is one statement of one thread of node n; the interpreter runs one
\* thread at a time and may switch between any two statements.  An
\* exception ends the call: in the discovery thread it is caught and logged
\* by _discovery_loop, in the caller's thread it reaches the caller.
\* ------------------------------------------------------------------------
Step(n, t, th, name) ==
    /\ proc' = [proc EXCEPT ![n][t] = th]
    /\ last' = [Last(name, n) EXCEPT !.hash = th.hash, !.err = th.err]

\* thread t of n is inside _remove_peer(peer)
Removing(n, t, peer) ==
    /\ proc[n][t].peer = peer
    /\ proc[n][t].pc \in {"remove_in", "remove_del", "remove_items", "remove_for",
                          "remove_member", "remove_remove", "remove_empty",
                          "remove_files", "remove_return"}

\* thread t of n calls _remove_peer(peer) and becomes th
Call(n, t, th, peer, name) ==
    LET o == CHOOSE x \in Threads : x # t
        both == Removing(n, o, peer)
    IN  /\ proc' = [proc EXCEPT ![n][t] = [th EXCEPT !.raced = both],
                                ![n][o].raced = @ \/ both]
        /\ last' = [Last(name, n) EXCEPT !.hash = th.hash, !.err = th.err]

Raise(th, e) == [th EXCEPT !.pc = "idle", !.err = e, !.done = TRUE]

Return(th) == [th EXCEPT !.pc = "idle", !.done = TRUE]

\* share_file up to the for statement of _announce_file: the hash is
\* registered in local_files and the iteration over self.peers starts
share_file_enter(n, file_path) ==
    /\ running[n]
    /\ proc[n].caller.pc = "idle"
    /\ file_path \in DOMAIN InitDisk(n)
    /\ LET file_hash == sha256(disk[n][file_path])
       IN  /\ local_files' = [local_files EXCEPT
                ![n] = Put(@, file_hash, [path |-> file_path, name |-> basename(file_path)])]
           /\ Step(n, "caller",
                   [ThreadInit EXCEPT !.pc = "announce_for", !.op = "share_file",
                                      !.hash = file_hash, !.path = file_path,
                                      !.size = Cardinality(DOMAIN peers[n]),
                                      !.targets = DOMAIN peers[n]],
                   "share_file_enter")
    /\ UNCHANGED <<now, running, peers, shared_files, disk, net>>

\* `for peer in self.peers` of _announce_file: the next key and its sendto,
\* RuntimeError when the dictionary has changed size since the loop
\* started, or the end of the loop
announce_for(n) ==
    LET th == proc[n].caller
    IN  /\ th.pc = "announce_for"
        /\ IF Cardinality(DOMAIN peers[n]) # th.size
           THEN /\ Step(n, "caller", Raise(th, "RuntimeError"), "announce_for")
                /\ net' = net
           ELSE IF th.targets = {}
           THEN /\ Step(n, "caller", [th EXCEPT !.pc = "announce_bootstrap"], "announce_for")
                /\ net' = net
           ELSE \E p \in th.targets :
                  /\ Step(n, "caller", [th EXCEPT !.targets = @ \ {p}], "announce_for")
                  /\ Sendto({Announce(n, p, th.hash, basename(th.path))}, net, net')
        /\ UNCHANGED <<now, running, peers, shared_files, local_files, disk>>

\* the loop of _announce_file over the bootstrap nodes
announce_bootstrap(n) ==
    LET th == proc[n].caller
    IN  /\ th.pc = "announce_bootstrap"
        /\ Sendto({Announce(n, d, th.hash, basename(th.path)) :
                     d \in bootstrap_nodes(n) \ DOMAIN peers[n]}, net, net')
        /\ Step(n, "caller", [th EXCEPT !.pc = "share_record"], "announce_bootstrap")
        /\ UNCHANGED <<now, running, peers, shared_files, local_files, disk>>

\* if file_hash not in self.shared_files: create the record
share_record(n) ==
    LET th == proc[n].caller
    IN  /\ th.pc = "share_record"
        /\ shared_files' = [shared_files EXCEPT ![n] =
               IF th.hash \in DOMAIN @ THEN @
               ELSE Put(@, th.hash, [peers |-> <<>>, name |-> basename(th.path)])]
        /\ Step(n, "caller", [th EXCEPT !.pc = "share_member"], "share_record")
        /\ UNCHANGED <<now, running, peers, local_files, disk, net>>

\* if (self.host, self.port) not in self.shared_files[file_hash]['peers']
share_member(n) ==
    LET th == proc[n].caller
    IN  /\ th.pc = "share_member"
        /\ Step(n, "caller",
                IF th.hash \notin DOMAIN shared_files[n] THEN Raise(th, "KeyError")
                ELSE IF SelfAddr(n) \in Range(shared_files[n][th.hash].peers)
                THEN Return(th)
                ELSE [th EXCEPT !.pc = "share_append"],
                "share_member")
        /\ UNCHANGED <<now, running, peers, shared_files, local_files, disk, net>>

\* self.shared_files[file_hash]['peers'].append((self.host, self.port))
share_append(n) ==
    LET th == proc[n].caller
    IN  /\ th.pc = "share_append"
        /\ IF th.hash \notin DOMAIN shared_files[n]
           THEN /\ Step(n, "caller", Raise(th, "KeyError"), "share_append")
                /\ shared_files' = shared_files
           ELSE /\ Step(n, "caller", Return(th), "share_append")
                /\ shared_files' = [shared_files EXCEPT
                                      ![n][th.hash].peers = Append(@, SelfAddr(n))]
        /\ UNCHANGED <<now, running, peers, local_files, disk, net>>

\* the hashes of which peer is the only holder that n knows
SoleHolder(n, peer) ==
    {h \in DOMAIN shared_files[n] : shared_files[n][h].peers = <<peer>>}

\* request_file up to the loop over failed_peers: every candidate has
\* been tried and has failed
request_file_failed(n, file_hash) ==
    /\ running[n]
    /\ proc[n].caller.pc = "idle"
    /\ \E r \in {request_file(n, file_hash, None,
                              [i \in 1..(IF file_hash \in DOMAIN shared_files[n]
                                         THEN Len(shared_files[n][file_hash].peers)
                                         ELSE 0) |-> Link(0, "none")])} :
         /\ r.result = "failed"
         /\ disk' = [disk EXCEPT ![n] = r.disk]
         /\ Step(n, "caller",
                 [ThreadInit EXCEPT !.pc = "failed_for", !.op = "request_file",
                                    !.hash = file_hash,
                                    !.queue = [i \in DOMAIN r.tries |-> r.tries[i].peer]],
                 "request_file_failed")
    /\ UNCHANGED <<now, running, peers, shared_files, local_files, net>>

\* `for peer in failed_peers: if peer in self.peers:` the call of
\* _remove_peer, or the raise that ends request_file after the loop
failed_for(n) ==
    LET th == proc[n].caller
    IN  /\ th.pc = "failed_for"
        /\ IF th.queue = <<>> THEN Step(n, "caller", Return(th), "failed_for")
           ELSE IF Head(th.queue) \in DOMAIN peers[n]
           THEN Call(n, "caller",
                     [th EXCEPT !.pc = "remove_in", !.peer = Head(th.queue),
                                !.held = SoleHolder(n, Head(th.queue)),
                                !.queue = Tail(th.queue)],
                     Head(th.queue), "failed_for")
           ELSE Step(n, "caller", [th EXCEPT !.queue = Tail(th.queue)], "failed_for")
        /\ UNCHANGED <<now, running, peers, shared_files, local_files, disk, net>>

\* the discovery thread receives a goodbye and calls _remove_peer
goodbye_received(n, m) ==
    /\ proc[n].discovery.pc = "idle"
    /\ proc[n].discovery_thread = "recvfrom"
    /\ running[n]
    /\ m \in net
    /\ m.dst = SelfAddr(n)
    /\ m.type = "goodbye"
    /\ net' = net \ {m}
    /\ Call(n, "discovery",
            [ThreadInit EXCEPT !.pc = "remove_in", !.op = "goodbye", !.peer = m.src,
                               !.held = SoleHolder(n, m.src)],
            m.src, "goodbye_received")
    /\ UNCHANGED <<now, running, peers, shared_files, local_files, disk>>

\* _remove_peer: if peer in self.peers
remove_in(n, t) ==
    LET th == proc[n][t]
    IN  /\ th.pc = "remove_in"
        /\ Step(n, t, [th EXCEPT !.pc = IF th.peer \in DOMAIN peers[n]
                                        THEN "remove_del" ELSE "remove_return"],
                "remove_in")
        /\ UNCHANGED <<now, running, peers, shared_files, local_files, disk, net>>

\* _remove_peer: del self.peers[peer]
remove_del(n, t) ==
    LET th == proc[n][t]
    IN  /\ th.pc = "remove_del"
        /\ IF th.peer \in DOMAIN peers[n]
           THEN /\ peers' = [peers EXCEPT ![n] = Del(@, {th.peer})]
                /\ Step(n, t, [th EXCEPT !.pc = "remove_items", !.dels = @ + 1],
                        "remove_del")
           ELSE /\ peers' = peers
                /\ Step(n, t, Raise(th, "KeyError"), "remove_del")
        /\ UNCHANGED <<now, running, shared_files, local_files, disk, net>>

\* _remove_peer: files_to_remove = [] and the start of the iteration over
\* self.shared_files.items()
remove_items(n, t) ==
    LET th == proc[n][t]
    IN  /\ th.pc = "remove_items"
        /\ Step(n, t, [th EXCEPT !.pc = "remove_for", !.files_to_remove = {},
                                 !.size = Cardinality(DOMAIN shared_files[n]),
                                 !.todo = DOMAIN shared_files[n]],
                "remove_items")
        /\ UNCHANGED <<now, running, peers, shared_files, local_files, disk, net>>

\* _remove_peer: the for statement takes the next record, raises
\* RuntimeError when the dictionary has changed size, or ends the loop
remove_for(n, t) ==
    LET th == proc[n][t]
    IN  /\ th.pc = "remove_for"
        /\ IF Cardinality(DOMAIN shared_files[n]) # th.size
           THEN Step(n, t, Raise(th, "RuntimeError"), "remove_for")
           ELSE IF th.todo = {}
           THEN Step(n, t, [th EXCEPT !.pc = "remove_files"], "remove_for")
           ELSE \E h \in th.todo :
                  Step(n, t, [th EXCEPT !.pc = "remove_member", !.cur = h,
                                        !.todo = @ \ {h}], "remove_for")
        /\ UNCHANGED <<now, running, peers, shared_files, local_files, disk, net>>

\* the peer list of the record the loop of thread th is at; a record that
\* another thread has deleted from the dictionary meanwhile was emptied by
\* it before
CurPeers(n, th) ==
    IF th.cur \in DOMAIN shared_files[n] THEN shared_files[n][th.cur].peers ELSE <<>>

\* _remove_peer: if peer in file_info['peers']
remove_member(n, t) ==
    LET th == proc[n][t]
    IN  /\ th.pc = "remove_member"
        /\ Step(n, t, [th EXCEPT !.pc = IF th.peer \in Range(CurPeers(n, th))
                                        THEN "remove_remove" ELSE "remove_for"],
                "remove_member")
        /\ UNCHANGED <<now, running, peers, shared_files, local_files, disk, net>>

\* _remove_peer: file_info['peers'].remove(peer)
remove_remove(n, t) ==
    LET th == proc[n][t]
    IN  /\ th.pc = "remove_remove"
        /\ IF th.peer \in Range(CurPeers(n, th))
           THEN /\ shared_files' = [shared_files EXCEPT
                                      ![n][th.cur].peers = ListRemove(@, th.peer)]
                /\ Step(n, t, [th EXCEPT !.pc = "remove_empty"], "remove_remove")
           ELSE /\ shared_files' = shared_files
                /\ Step(n, t, Raise(th, "ValueError"), "remove_remove")
        /\ UNCHANGED <<now, running, peers, local_files, disk, net>>

\* _remove_peer: if not file_info['peers']: files_to_remove.append(file_hash)
remove_empty(n, t) ==
    LET th == proc[n][t]
    IN  /\ th.pc = "remove_empty"
        /\ Step(n, t, [th EXCEPT !.pc = "remove_for",
                                 !.files_to_remove = IF CurPeers(n, th) = <<>>
                                                     THEN @ \cup {th.cur} ELSE @],
                "remove_empty")
        /\ UNCHANGED <<now, running, peers, shared_files, local_files, disk, net>>

\* _remove_peer: for file_hash in files_to_remove: del
\* self.shared_files[file_hash], or the end of that loop
remove_files(n, t) ==
    LET th == proc[n][t]
    IN  /\ th.pc = "remove_files"
        /\ IF th.files_to_remove = {}
           THEN /\ shared_files' = shared_files
                /\ Step(n, t, [th EXCEPT !.pc = "remove_return"], "remove_files")
           ELSE \E h \in th.files_to_remove :
                  IF h \in DOMAIN shared_files[n]
                  THEN /\ shared_files' = [shared_files EXCEPT ![n] = Del(@, {h})]
                       /\ Step(n, t, [th EXCEPT !.files_to_remove = @ \ {h}], "remove_files")
                  ELSE /\ shared_files' = shared_files
                       /\ Step(n, t, Raise(th, "KeyError"), "remove_files")
        /\ UNCHANGED <<now, running, peers, local_files, disk, net>>

\* _remove_peer returns: request_file goes on with its loop, the discovery
\* loop with the sweep and the next datagram
remove_return(n, t) ==
    LET th == proc[n][t]
    IN  /\ th.pc = "remove_return"
        /\ IF t = "caller"
           THEN /\ Step(n, t, [th EXCEPT !.pc = "failed_for"], "remove_return")
                /\ UNCHANGED <<peers, shared_files>>
           ELSE \E st \in {_cleanup_peers(NodeState(n), now)} :
                  /\ peers' = [peers EXCEPT ![n] = st.peers]
                  /\ shared_files' = [shared_files EXCEPT ![n] = st.shared_files]
                  /\ Step(n, t, Return(th), "remove_return")
        /\ UNCHANGED <<now, running, local_files, disk, net>>

\* the steps of _remove_peer in thread t of node n
RemoveSteps(n, t) ==
    \/ remove_in(n, t)
    \/ remove_del(n, t)
    \/ remove_items(n, t)
    \/ remove_for(n, t)
    \/ remove_member(n, t)
    \/ remove_remove(n, t)
    \/ remove_empty(n, t)
    \/ remove_files(n, t)
    \/ remove_return(n, t)

stop(n) ==
    /\ running[n]
    /\ Cardinality({x \in Node : ~running[x]}) < MaxStopped
    /\ Sendto({Goodbye(n, p) : p \in DOMAIN peers[n]},
              {m \in net : m.dst # SelfAddr(n)}, net')
    /\ running' = [running EXCEPT ![n] = FALSE]
    /\ proc' = [proc EXCEPT ![n].pc = Len(StopOrder) - 1, ![n].goodbye = TRUE,
                             ![n].discovery_socket = "closed",
                             ![n].transfer_socket = "closed"]
    /\ last' = [Last("stop", n) EXCEPT !.sent = {Goodbye(n, p) : p \in DOMAIN peers[n]}]
    /\ UNCHANGED <<now, peers, shared_files, local_files, disk>>

\* stop(), statement by statement.  proc[n].pc counts the statements done.
StopAt(n, stmt) ==
    /\ proc[n].pc < Len(StopOrder)
    /\ StopOrder[proc[n].pc + 1] = stmt

\* the loop that sends a goodbye to every key of peers
stop_goodbye(n) ==
    /\ StopAt(n, "goodbye")
    /\ Sendto(IF proc[n].discovery_socket = "open"
              THEN {Goodbye(n, p) : p \in DOMAIN peers[n]} ELSE {}, net, net')
    /\ proc' = [proc EXCEPT ![n].pc = @ + 1, ![n].goodbye = TRUE]
    /\ last' = [Last("stop_goodbye", n) EXCEPT
                  !.sent = {Goodbye(n, p) : p \in DOMAIN peers[n]}]
    /\ UNCHANGED <<now, running, peers, shared_files, local_files, disk>>

\* self.running = False
stop_clear(n) ==
    /\ StopAt(n, "clear")
    /\ running' = [running EXCEPT ![n] = FALSE]
    /\ proc' = [proc EXCEPT ![n].pc = @ + 1]
    /\ last' = Last("stop_clear", n)
    /\ UNCHANGED <<now, peers, shared_files, local_files, disk, net>>

\* self.discovery_socket.close()
stop_close_discovery(n) ==
    /\ StopAt(n, "close_discovery")
    /\ proc' = [proc EXCEPT ![n].pc = @ + 1, ![n].discovery_socket = "closed"]
    /\ last' = Last("stop_close_discovery", n)
    /\ UNCHANGED <<now, running, peers, shared_files, local_files, disk, net>>

\* self.transfer_socket.close()
stop_close_transfer(n) ==
    /\ StopAt(n, "close_transfer")
    /\ proc' = [proc EXCEPT ![n].pc = @ + 1, ![n].transfer_socket = "closed"]
    /\ last' = Last("stop_close_transfer", n)
    /\ UNCHANGED <<now, running, peers, shared_files, local_files, disk, net>>

\* the two joins: they return when both threads have ended
stop_join(n) ==
    /\ StopAt(n, "join")
    /\ proc[n].discovery_thread = "exited"
    /\ proc[n].transfer_thread = "exited"
    /\ proc' = [proc EXCEPT ![n].pc = @ + 1]
    /\ last' = Last("stop", n)
    /\ UNCHANGED <<now, running, peers, shared_files, local_files, disk, net>>

\* The discovery thread waits in recvfrom on a socket that another thread
\* has closed.  What the pending call does is left to the platform: it
\* fails, and the loop tests self.running again, or it stays blocked until
\* a datagram arrives.  A thread that ends leaves its datagrams unread.
_discovery_loop_closed(n) ==
    /\ proc[n].discovery_socket = "closed"
    /\ proc[n].discovery_thread = "recvfrom"
    /\ \E outcome \in {"blocked", IF running[n] THEN "recvfrom" ELSE "exited"} :
         /\ proc' = [proc EXCEPT ![n].discovery_thread = outcome]
         /\ net' = IF outcome = "exited" THEN {m \in net : m.dst # SelfAddr(n)} ELSE net
    /\ last' = Last("_discovery_loop_closed", n)
    /\ UNCHANGED <<now, running, peers, shared_files, local_files, disk>>

\* the last iteration of _discovery_loop: a datagram arrives after the
\* flag was cleared, it is dispatched, the sweep runs, and the loop ends at
\* its test of self.running.  A hello is answered only while the socket is
\* open.
_discovery_loop_last(n, m) ==
    /\ ~running[n]
    /\ proc[n].discovery_thread \in {"recvfrom", "blocked"}
    /\ m \in net
    /\ m.dst = SelfAddr(n)
    /\ \E st1 \in {Dispatch(NodeState(n), n, m, now)} :
         \E st2 \in {_cleanup_peers(st1, now)} :
           /\ peers' = [peers EXCEPT ![n] = st2.peers]
           /\ shared_files' = [shared_files EXCEPT ![n] = st2.shared_files]
           /\ last' = [Last(m.type, n) EXCEPT
                         !.msg = m,
                         !.evicted = (DOMAIN peers[n] \cup DOMAIN st1.peers) \ DOMAIN st2.peers,
                         !.deleted = (DOMAIN shared_files[n] \cup DOMAIN st1.shared_files)
                                        \ DOMAIN st2.shared_files]
    /\ Sendto(IF m.type = "hello" /\ proc[n].discovery_socket = "open"
              THEN HelloResponse(n, m.src, local_files[n]) ELSE {},
              {x \in net : x.dst # SelfAddr(n)}, net')
    /\ proc' = [proc EXCEPT ![n].discovery_thread = "exited"]
    /\ UNCHANGED <<now, running, local_files, disk>>

\* The transfer thread waits in accept on a socket that another thread has
\* closed: the pending call fails and the loop tests self.running again,
\* or it stays blocked.
_transfer_loop_closed(n) ==
    /\ proc[n].transfer_socket = "closed"
    /\ proc[n].transfer_thread = "accept"
    /\ \E outcome \in {"blocked", IF running[n] THEN "accept" ELSE "exited"} :
         proc' = [proc EXCEPT ![n].transfer_thread = outcome]
    /\ last' = Last("_transfer_loop_closed", n)
    /\ UNCHANGED <<now, running, peers, shared_files, local_files, disk, net>>

\* The protocol with its clock: discovery of B by C, the inactivity
\* sweep, sharing, downloads by C of the files the nodes start with, under
\* the listed name and answered without timeout, shutdown of B.  Files do
\* not change once created and A stays idle.
Next ==
    \/ Tick
    \/ discover_peers("C")
    \/ \E n \in Node : \E m \in net : _discovery_loop(n, m)
    \/ \E n \in {"B", "C"}, path \in Paths : share_file(n, path)
    \/ \E h \in InitHashes : RequestFile("C", h, None, NoTimeout)
    \/ stop("B")

Spec == Init /\ [][Next]_vars

\* Transfers within one sweep period (the clock does not advance): all
\* three nodes share their file of the common bytes, C discovers B and
\* downloads, with connections that may time out, and A, whose transfer
\* socket answers the connections made to B's address, changes its file on
\* disk and shuts down.
NextTransfer ==
    \/ \E path \in Paths, bytes \in Contents : EditFile("A", path, bytes)
    \/ discover_peers("C")
    \/ \E n \in Node : \E m \in net : _discovery_loop(n, m)
    \/ \E n \in Node : \E path \in CommonFiles(n) : share_file(n, path)
    \/ \E h \in Hashes, save_as \in SaveNames : RequestFile("C", h, save_as, TimeoutChoices)
    \/ stop("A")

SpecTransfer == Init /\ [][NextTransfer]_vars

\* Discovery with stray datagrams: as Spec without downloads, C and B
\* share the file they have in common, and C receives datagrams outside
\* the protocol from the address of B.
NextStray ==
    \/ Tick
    \/ discover_peers("C")
    \/ \E n \in Node : \E m \in net : _discovery_loop(n, m)
    \/ \E n \in {"B", "C"} : \E path \in CommonFiles(n) : share_file(n, path)
    \/ \E m \in Stray("C", SelfAddr("B")) : _discovery_loop_stray("C", m)
    \/ stop("B")

SpecStray == Init /\ [][NextStray]_vars

\* Announcements: B and C share the file they have in common, as it is or
\* after B changed it; C hears from its bootstrap node B and from a node
\* outside the model.
NextAnnounce ==
    \/ Tick
    \/ EditFile("B", <<"docs", "a">>, <<2>>)
    \/ discover_peers("C")
    \/ outside_hello("C")
    \/ \E n \in Node : \E m \in net : _discovery_loop(n, m)
    \/ \E n \in {"B", "C"} : \E path \in CommonFiles(n) : share_file(n, path)

SpecAnnounce == Init /\ [][NextAnnounce]_vars

\* Startup and periodic discovery of C, from inside its constructor, until
\* it is stopped; B, its bootstrap node, receives the hellos and shares a
\* file.
NextPeriodic ==
    \/ TickAsleep
    \/ init_discover_peers("C")
    \/ _periodic_discovery_test("C")
    \/ _periodic_discovery_call("C")
    \/ _periodic_discovery_wake("C")
    \/ \E n \in Node : \E m \in net : _discovery_loop(n, m)
    \/ \E path \in CommonFiles("B") : share_file("B", path)
    \/ stop("C")

SpecPeriodic == InitStartup /\ [][NextPeriodic]_vars

\* Downloads by B followed from the call to its end, with a peer that may
\* stall for ever.  The thread that called request_file runs on: weak
\* fairness on its steps.
CallerSteps(n) ==
    \/ request_file_leave(n)
    \/ request_file_stalled(n)
    \/ read_loop_timeout(n)

NextStall ==
    \/ \E n \in {"A", "B"}, bytes \in ChangedContents : EditFile(n, <<"docs", "a">>, bytes)
    \/ \E n \in {"A", "B"} : \E path \in CommonFiles(n) : share_file(n, path)
    \/ \E h \in ChangedHashes : request_file_enter("B", h)
    \/ CallerSteps("B")

SpecStall == Init /\ [][NextStall]_vars /\ WF_vars(CallerSteps("B"))

\* Two threads of C statement by statement: the caller's thread in
\* share_file or in the loop of request_file over failed_peers, the
\* discovery thread in the _remove_peer of a goodbye.  B shares the file it
\* has in common with C, answers the hello of C, and stops; the other
\* datagrams are handled in one step, and by C only while neither of its
\* threads is inside a call that is followed.
NextRace ==
    \/ discover_peers("C")
    \/ share_file("B", <<"docs", "a">>)
    \/ stop("B")
    \/ \E n \in Node : \E m \in net :
          /\ proc[n].discovery.pc = "idle"
          /\ proc[n].caller.pc = "idle"
          /\ m.type # "goodbye"
          /\ _discovery_loop(n, m)
    \/ \E m \in net : goodbye_received("C", m)
    \/ \E path \in CommonFiles("C") : share_file_enter("C", path)
    \/ announce_for("C")
    \/ announce_bootstrap("C")
    \/ share_record("C")
    \/ share_member("C")
    \/ share_append("C")
    \/ request_file_failed("C", sha256(<<1>>))
    \/ failed_for("C")
    \/ \E t \in Threads : RemoveSteps("C", t)

SpecRace == Init /\ [][NextRace]_vars

\* Downloads by B alone: C announces the files it shares to its bootstrap
\* node B, no hello is sent.  B's candidates are C and B itself; their
\* addresses reach the transfer sockets of B and of A, which serve what
\* these nodes share, changed on disk or not, or refuse once A has stopped;
\* a connection may time out, and so may a recv of the read loop.
NextFetch ==
    \/ \E n \in {"A", "B"}, bytes \in ChangedContents : EditFile(n, <<"docs", "a">>, bytes)
    \/ \E n \in Node : \E m \in net : _discovery_loop(n, m)
    \/ \E n \in Node : \E path \in CommonFiles(n) : share_file(n, path)
    \/ \E h \in ChangedHashes : RequestFile("B", h, None, StallChoices)
    \/ stop("A")

SpecFetch == Init /\ [][NextFetch]_vars

\* Shutdown of B followed statement by statement, with the two loops of B,
\* while C discovers B and both share files.  No download and no clock.
\* Once called, stop() runs on, and a thread whose pending call has been
\* decided runs on: weak fairness on both.
StopSteps(n) ==
    \/ stop_goodbye(n)
    \/ stop_clear(n)
    \/ stop_close_discovery(n)
    \/ stop_close_transfer(n)
    \/ stop_join(n)

LoopSteps(n) ==
    \/ _discovery_loop_closed(n)
    \/ _transfer_loop_closed(n)

NextStop ==
    \/ discover_peers("C")
    \/ \E n \in Node : \E m \in net : _discovery_loop(n, m)
    \/ \E m \in net : _discovery_loop_last("B", m)
    \/ \E n \in {"B", "C"} : \E path \in CommonFiles(n) : share_file(n, path)
    \/ StopSteps("B")
    \/ LoopSteps("B")

SpecStop ==
    /\ Init
    /\ [][NextStop]_vars
    /\ WF_vars(proc["B"].pc > 0 /\ StopSteps("B"))
    /\ WF_vars(LoopSteps("B"))

\* ------------------------------------------------------------------------
\* Properties
\* ------------------------------------------------------------------------
Requested == last.op = "request_file"

Requested_ == last'.op = "request_file"

Handled_ == last'.op \in DiscoveryOps

Shared_ == last'.op = "share_file"

\* the node's dictionaries between the dispatch and the sweep of the
\* discovery step just taken (bound once where a formula uses it)
Mid_ == Dispatch(NodeState(last'.node), last'.node, last'.msg, now)

\* C1: request_file returns a path only when the SHA-256 of the bytes in
\* the destination file equals the requested hash; whenever the hash of
\* the bytes written differs, the destination file is deleted and an error
\* is raised for that peer; the call adds nothing to local_files.
C1_HashVerified ==
    [][Requested_ =>
         LET n == last'.node IN
         /\ last'.result = "ok" =>
              /\ last'.path \in DOMAIN disk'[n]
              /\ sha256(disk'[n][last'.path]) = last'.hash
         /\ \A i \in DOMAIN last'.tries :
              LET t == last'.tries[i] IN
              t.dest \in DOMAIN disk'[n] => sha256(disk'[n][t.dest]) = last'.hash
         /\ \A i \in DOMAIN last'.tries :
              (i < Len(last'.tries) \/ last'.result # "ok") => last'.tries[i].err # None
         /\ local_files'[n] = local_files[n]]_vars

\* C2: for a hash already in local_files, request_file opens no connection
\* and returns the path stored in local_files.
C2_LocalNoNetwork ==
    Requested /\ last.hash \in DOMAIN local_files[last.node]
       => /\ last.tries = <<>>
          /\ last.result = "ok"
          /\ last.path = local_files[last.node][last.hash].path

\* C3: after request_file(H) returned a path, H is a key of local_files
\* with the returned path.
C3_DownloadRegistered ==
    Requested /\ last.result = "ok"
       => /\ last.hash \in DOMAIN local_files[last.node]
          /\ local_files[last.node][last.hash].path = last.path

\* C4: when the first candidate refuses the connection and the second
\* serves the right bytes, request_file returns the download, and afterwards
\* the refusing candidate is in neither peers nor any FileRecord.
C4_RefusedPeerEvicted ==
    (/\ Requested
     /\ Len(last.tries) = 2
     /\ last.tries[1].err = "refused"
     /\ last.tries[2].err = None)
       => /\ last.result = "ok"
          /\ last.tries[1].peer \notin DOMAIN peers[last.node]
          /\ \A h \in DOMAIN shared_files[last.node] :
               last.tries[1].peer \notin Range(shared_files[last.node][h].peers)

\* C5: when a discovery step (goodbye or sweep) evicts the peers that were
\* the only holders of H, H has no FileRecord afterwards; and request_file
\* for a hash without FileRecord fails with the not-found error, opens no
\* connection, and leaves peers, shared_files, local_files and the disk
\* as they were.
C5_SoleHolderEvicted ==
    [][/\ Handled_ =>
            \A mid \in {Mid_} :
            LET n == last'.node IN
            \A h \in DOMAIN shared_files[n] \cup DOMAIN mid.shared_files :
               LET holders == (IF h \in DOMAIN shared_files[n]
                               THEN Range(shared_files[n][h].peers) ELSE {})
                              \cup (IF h \in DOMAIN mid.shared_files
                                    THEN Range(mid.shared_files[h].peers) ELSE {})
               IN  holders \subseteq last'.evicted => h \notin DOMAIN shared_files'[n]
       /\ (Requested_ /\ last'.hash \notin DOMAIN shared_files[last'.node]) =>
            /\ last'.result = "not_found"
            /\ last'.err = "not found in network"
            /\ last'.tries = <<>>
            /\ peers' = peers
            /\ shared_files' = shared_files
            /\ local_files' = local_files
            /\ disk' = disk]_vars

\* C5 happens: request_file failed with not-found right after a discovery
\* step of the node deleted the FileRecord of the requested hash.
C5_Witness ==
    /\ Requested
    /\ last.again
    /\ last.result = "not_found"
    /\ last.hash \notin DOMAIN shared_files[last.node]

\* C6: after the sweep of a discovery step, every peer last seen more than
\* 30 seconds ago is in neither peers nor the peer list of any FileRecord,
\* every FileRecord whose peers were all swept is deleted, and every peer
\* seen at most 30 seconds ago keeps its entry in peers and its place in
\* every FileRecord that listed it.
C6_SweepExpired ==
    [][Handled_ =>
         \A mid \in {Mid_} :
         \A expired \in {{p \in DOMAIN mid.peers : now - mid.peers[p] > 30}} :
         \A fresh \in {{p \in DOMAIN mid.peers : now - mid.peers[p] <= 30}} :
         LET n == last'.node
         IN  /\ \A p \in expired :
                  /\ p \notin DOMAIN peers'[n]
                  /\ \A h \in DOMAIN shared_files'[n] :
                       p \notin Range(shared_files'[n][h].peers)
             /\ \A h \in DOMAIN mid.shared_files :
                  /\ Range(mid.shared_files[h].peers) \subseteq expired
                       => h \notin DOMAIN shared_files'[n]
                  /\ ~(Range(mid.shared_files[h].peers) \subseteq expired)
                       => /\ h \in DOMAIN shared_files'[n]
                          /\ Range(shared_files'[n][h].peers)
                               = Range(mid.shared_files[h].peers) \ expired
             /\ \A p \in fresh :
                  /\ p \in DOMAIN peers'[n]
                  /\ peers'[n][p] = mid.peers[p]]_vars

\* C6 happens: the sweep that followed a hello, hello_response or
\* announce_file removed a peer and deleted a FileRecord.
C6_Witness ==
    /\ last.op \in DiscoveryOps \ {"goodbye"}
    /\ last.evicted # {}
    /\ last.deleted # {}

\* C7: a FileRecord disappears only in a step that runs _remove_peer (a
\* discovery step, or a request_file that failed on every candidate), and
\* only when that step removed from peers every address the record listed;
\* the records that remain have a peer.
C7_RecordDeletedOnlyWhenEmpty ==
    [][\A n \in Node :
         /\ \A h \in DOMAIN shared_files[n] \ DOMAIN shared_files'[n] :
              /\ last'.node = n
              /\ \/ Handled_
                 \/ Requested_ /\ last'.result = "failed"
              /\ last'.evicted # {}
              /\ Range(shared_files[n][h].peers) \subseteq last'.evicted
         /\ \A h \in DOMAIN shared_files'[n] : shared_files'[n][h].peers # <<>>]_vars

\* C7 happens: a step deleted a FileRecord while another FileRecord of the
\* node, which still lists a peer, stayed.
C7_Witness ==
    /\ last.deleted # {}
    /\ shared_files[last.node] # Empty

\* C8: share_file returns the SHA-256 of the bytes, so the same hash for
\* identical bytes; afterwards the hash is a key of local_files and the
\* node's own address occurs exactly once in the peer list of its
\* FileRecord; sharing bytes the node shared before leaves that peer list
\* and the keys of local_files unchanged.
C8_ShareIdempotent ==
    [][Shared_ =>
         LET n == last'.node
             h == last'.hash
         IN  /\ h = sha256(disk[n][last'.path])
             /\ h \in DOMAIN local_files'[n]
             /\ local_files'[n][h].path = last'.path
             /\ h \in DOMAIN shared_files'[n]
             /\ Count(SelfAddr(n), shared_files'[n][h].peers) = 1
             /\ last'.again =>
                  /\ h \in DOMAIN shared_files[n]
                  /\ shared_files'[n][h].peers = shared_files[n][h].peers
                  /\ DOMAIN local_files'[n] = DOMAIN local_files[n]]_vars

\* C8 happens: a node shared bytes it had shared before.
C8_Witness ==
    /\ last.op = "share_file"
    /\ last.again
    /\ Count(SelfAddr(last.node), shared_files[last.node][last.hash].peers) = 1

\* C9 as stated: once the hello_response of a node that shared H is
\* processed, the receiver lists H under the sender's name with the sender
\* in its peer list, and each of the two nodes has the other in peers.
C9_HelloExchange ==
    [][(last'.op = "hello_response" /\ last'.msg.src # SelfAddr(last'.node)) =>
         LET n == last'.node
             m == last'.msg
         IN  \A h \in DOMAIN m.files :
                /\ h \in DOMAIN shared_files'[n]
                /\ shared_files'[n][h].name = m.files[h]
                /\ m.src \in Range(shared_files'[n][h].peers)
                /\ m.src \in DOMAIN peers'[n]
                /\ SelfAddr(n) \in DOMAIN peers'[NodeAt(m.src)]]_vars

\* C9 amended: a node that processes the hello of another node records the
\* sender in peers and answers with a hello_response listing exactly its
\* local_files, each under its own name; a node that processes that
\* hello_response records the sender in peers and lists every hash of the
\* response with the sender in the peer list, under the sender's name when
\* it had no FileRecord for the hash and under the recorded name otherwise.
C9_HelloExchangeAmended ==
    [][/\ (last'.op = "hello" /\ last'.msg.src # SelfAddr(last'.node)) =>
            LET n == last'.node
                m == last'.msg
            IN  /\ m.src \in DOMAIN peers'[n]
                /\ peers'[n][m.src] = now
                /\ \A r \in net' \ net :
                     /\ r.type = "hello_response"
                     /\ r.src = SelfAddr(n)
                     /\ r.dst = m.src
                     /\ DOMAIN r.files = DOMAIN local_files[n]
                     /\ \A h \in DOMAIN r.files : r.files[h] = local_files[n][h].name
       /\ (last'.op = "hello_response" /\ last'.msg.src # SelfAddr(last'.node)) =>
            LET n == last'.node
                m == last'.msg
            IN  /\ m.src \in DOMAIN peers'[n]
                /\ peers'[n][m.src] = now
                /\ \A h \in DOMAIN m.files :
                     /\ h \in DOMAIN shared_files'[n]
                     /\ m.src \in Range(shared_files'[n][h].peers)
                     /\ shared_files'[n][h].name =
                          IF h \in DOMAIN shared_files[n]
                          THEN shared_files[n][h].name ELSE m.files[h]]_vars

\* C9 happens: a hello_response naming a hash was processed by a node that
\* already listed the hash under another name.
C9_Witness ==
    /\ last.op = "hello_response"
    /\ \E h \in DOMAIN last.msg.files :
         /\ h \in DOMAIN shared_files[last.node]
         /\ shared_files[last.node][h].name # last.msg.files[h]
         /\ last.msg.src \in Range(shared_files[last.node][h].peers)
         /\ last.msg.src \in DOMAIN peers[last.node]

\* C10: every connection of request_file for a candidate recorded as
\* (host, P) goes to (host, P + 1), never to the discovery port P.
C10_ConnectsToTransferPort ==
    Requested =>
       \A i \in DOMAIN last.tries :
          \A j \in DOMAIN last.tries[i].conns :
             last.tries[i].conns[j] = <<last.tries[i].peer[1], last.tries[i].peer[2] + 1>>



\* C11: stop() hands to sendto one goodbye for every key of peers, while
\* the running flag is set and both sockets are open; the flag is cleared
\* and the sockets are closed only after that.
C11_GoodbyeBeforeShutdown ==
    /\ last.op = "stop_goodbye" =>
         /\ last.sent = {Goodbye(last.node, p) : p \in DOMAIN peers[last.node]}
         /\ \A m \in last.sent : m.type = "goodbye" /\ m.src = SelfAddr(last.node)
         /\ running[last.node]
         /\ proc[last.node].discovery_socket = "open"
         /\ proc[last.node].transfer_socket = "open"
    /\ \A n \in Node :
         (\/ ~running[n]
          \/ proc[n].discovery_socket = "closed"
          \/ proc[n].transfer_socket = "closed") => proc[n].goodbye

\* C11 happens: stop() has sent a goodbye to a peer and the goodbye is
\* under way.
C11_Witness ==
    /\ last.op = "stop_goodbye"
    /\ last.sent # {}
    /\ last.sent \subseteq net

\* C12: neither loop ends before stop() is called, and once stop() has
\* cleared the flag and closed both sockets, both loops end.
C12_LoopsExit ==
    /\ [](\A n \in Node :
            (\/ proc[n].discovery_thread = "exited"
             \/ proc[n].transfer_thread = "exited") => proc[n].pc > 0)
    /\ \A n \in Node :
         (/\ ~running[n]
          /\ proc[n].discovery_socket = "closed"
          /\ proc[n].transfer_socket = "closed")
            ~> (/\ proc[n].discovery_thread = "exited"
                /\ proc[n].transfer_thread = "exited")

\* C13: when every candidate fails, request_file raises the failure that
\* carries the error of the last candidate, after it tried every candidate
\* of its list, in order; and when the tries all failed, that failure is
\* what it raises.
C13_AllCandidatesTried ==
    /\ (Requested /\ last.result = "failed") =>
         /\ Len(last.tries) = Len(last.cands)
         /\ \A i \in DOMAIN last.tries :
              /\ last.tries[i].peer = last.cands[i]
              /\ last.tries[i].err # None
         /\ last.err = last.tries[Len(last.tries)].err
    /\ (/\ Requested
        /\ last.cands # <<>>
        /\ \A i \in DOMAIN last.tries : last.tries[i].err # None)
         => /\ last.result = "failed"
            /\ Len(last.tries) = Len(last.cands)

\* C13 happens: two candidates failed with different errors.
C13_Witness ==
    /\ Requested
    /\ last.result = "failed"
    /\ Len(last.cands) >= 2
    /\ last.tries[1].err # last.tries[2].err

\* C14: every hash of local_files has a FileRecord whose peer list holds
\* the node's own address, in every state, whatever was evicted.
C14_OwnAddressListed ==
    \A n \in Node :
       \A h \in DOMAIN local_files[n] :
          /\ h \in DOMAIN shared_files[n]
          /\ SelfAddr(n) \in Range(shared_files[n][h].peers)

\* C14 happens: a node that shares a file evicted a peer and deleted the
\* FileRecord of another hash.
C14_Witness ==
    /\ last.op \in DiscoveryOps \cup {"request_file"}
    /\ last.evicted # {}
    /\ last.deleted # {}
    /\ local_files[last.node] # Empty

\* C15: request_file ends in a download, in the not-found failure (hash
\* in neither local_files nor shared_files) or in the failure raised after
\* the last candidate; a candidate's own error (timeout, refused connection,
\* bad header, hash mismatch, no data) is followed by the next candidate.
C15_OnlyTwoFailures ==
    Requested =>
       /\ last.result \in {"ok", "not_found", "failed"}
       /\ last.result = "not_found" =>
            /\ last.hash \notin DOMAIN local_files[last.node]
            /\ last.hash \notin DOMAIN shared_files[last.node]
            /\ last.tries = <<>>
       /\ \A i \in DOMAIN last.tries :
            /\ last.tries[i].err \in {None, "timed out", "refused",
                                       "unexpected response type",
                                       "extra data",
                                       "timeout while receiving file data",
                                       "no data received", "hash verification failed"}
            /\ (last.tries[i].err # None /\ i < Len(last.cands))
                 => i + 1 \in DOMAIN last.tries
            /\ last.tries[i].err = None => (i = Len(last.tries) /\ last.result = "ok")

\* C15 happens: a candidate served bytes of another hash and the next
\* candidate was tried.
C15_Witness ==
    /\ Requested
    /\ Len(last.tries) >= 2
    /\ last.tries[1].err = "hash verification failed"

\* C16: after a goodbye from X is processed, X is in neither peers nor
\* the peer list of any FileRecord.
C16_GoodbyeStripsSender ==
    last.op = "goodbye" =>
       /\ last.msg.src \notin DOMAIN peers[last.node]
       /\ \A h \in DOMAIN shared_files[last.node] :
            last.msg.src \notin Range(shared_files[last.node][h].peers)

\* C17: a node's own address is never a key of its peers; a hello from
\* the node's own address adds nothing to peers or shared_files, refreshes
\* nothing and is not answered (the sweep that follows every message still
\* removes expired peers); _handle_hello_response leaves the dictionaries
\* as they are when the sender is the node itself.
C17_SelfFiltered ==
    [][/\ \A n \in Node : SelfAddr(n) \notin DOMAIN peers'[n]
       /\ (/\ last'.op \in {"hello", "hello_response"}
           /\ last'.msg.src = SelfAddr(last'.node)) =>
            LET n == last'.node
                gone == DOMAIN peers[n] \ DOMAIN peers'[n]
            IN  /\ net' \subseteq net
                /\ DOMAIN peers'[n] \subseteq DOMAIN peers[n]
                /\ \A p \in DOMAIN peers'[n] : peers'[n][p] = peers[n][p]
                /\ \A p \in gone : now - peers[n][p] > 30
                /\ DOMAIN shared_files'[n] \subseteq DOMAIN shared_files[n]
                /\ \A h \in DOMAIN shared_files'[n] :
                     /\ Range(shared_files'[n][h].peers)
                          = Range(shared_files[n][h].peers) \ gone
                     /\ shared_files'[n][h].name = shared_files[n][h].name
                /\ gone = {} => shared_files'[n] = shared_files[n]
       /\ \A n, m \in Node :
            _handle_hello_response(NodeState(n), n, SelfAddr(n),
                                   ResponseFiles(local_files[m]), now) = NodeState(n)]_vars

\* C17 happens: a node that tracks a peer processed its own hello.
C17_Witness ==
    /\ last.op = "hello"
    /\ last.msg.src = SelfAddr(last.node)
    /\ peers[last.node] # Empty
    /\ shared_files[last.node] # Empty

\* C18: processing an announce_file from X inserts no peer and refreshes
\* no last-seen time, whether or not X is tracked (the sweep that follows
\* removes the expired peers); unless that sweep removed X, the announced
\* hash has a FileRecord that lists X, created under the announced name if
\* the hash was unseen.
C18_AnnounceFrame ==
    [][last'.op = "announce_file" =>
         LET n == last'.node
             m == last'.msg
             gone == DOMAIN peers[n] \ DOMAIN peers'[n]
         IN  /\ DOMAIN peers'[n] \subseteq DOMAIN peers[n]
             /\ \A p \in DOMAIN peers'[n] : peers'[n][p] = peers[n][p]
             /\ \A p \in gone : now - peers[n][p] > 30
             /\ m.src \notin gone =>
                  /\ m.file_hash \in DOMAIN shared_files'[n]
                  /\ Count(m.src, shared_files'[n][m.file_hash].peers) = 1
                  /\ shared_files'[n][m.file_hash].name =
                       IF m.file_hash \in DOMAIN shared_files[n]
                       THEN shared_files[n][m.file_hash].name ELSE m.file_name]_vars

\* C18 happens: an announcement of a tracked peer was processed and the
\* peer's last-seen time is older than the time of receipt.
C18_Witness ==
    /\ last.op = "announce_file"
    /\ last.msg.src \in DOMAIN peers[last.node]
    /\ peers[last.node][last.msg.src] < now
    /\ last.msg.src \in Range(shared_files[last.node][last.msg.file_hash].peers)

\* C19: a hello, hello_response or announce_file received from an address
\* that is in peers sets its last-seen time to the time of receipt.
C19_EveryMessageRefreshes ==
    [][(/\ last'.op \in {"hello", "hello_response", "announce_file"}
        /\ last'.msg.src \in DOMAIN peers[last'.node]) =>
         /\ last'.msg.src \in DOMAIN peers'[last'.node]
         /\ peers'[last'.node][last'.msg.src] = now]_vars

\* C20: no address occurs twice in the peer list of a FileRecord.
C20_NoDuplicatePeer ==
    \A n \in Node :
       \A h \in DOMAIN shared_files[n] :
          \A a \in Range(shared_files[n][h].peers) :
             Count(a, shared_files[n][h].peers) = 1

\* C20 happens: a hello_response or announce_file named a hash whose peer
\* list already held the sender (it is not the last of the list).
C20_Witness ==
    /\ last.op \in {"hello_response", "announce_file"}
    /\ \E h \in DOMAIN shared_files[last.node] :
         /\ h = last.msg.file_hash \/ h \in DOMAIN last.msg.files
         /\ Len(shared_files[last.node][h].peers) >= 2
         /\ shared_files[last.node][h].peers[1] = last.msg.src


\* C21: every FileRecord of shared_files has a non-empty peer list, in
\* every state (handlers are single steps).
C21_NonEmptyPeerList ==
    \A n \in Node :
       \A h \in DOMAIN shared_files[n] : shared_files[n][h].peers # <<>>

\* C21 happens: a step evicted a peer and deleted a FileRecord, and the
\* node keeps the FileRecord of a hash that the evicted peer holds too.
C21_Witness ==
    /\ last.evicted # {}
    /\ last.deleted # {}
    /\ \E h \in DOMAIN shared_files[last.node] :
         /\ h \in DOMAIN shared_files[NodeAt(CHOOSE a \in last.evicted : TRUE)]
         /\ Len(shared_files[last.node][h].peers) >= 1


\* C22: a try whose read loop timed out before any byte arrived is not
\* given up before the third connection to that peer, with a sleep before
\* each retry.
C22_ZeroByteTimeoutRetried ==
    Requested =>
       \A i \in DOMAIN last.tries :
          last.tries[i].err = "timeout while receiving file data" =>
             /\ Len(last.tries[i].conns) = max_retries + 1
             /\ last.tries[i].sleeps = max_retries

\* C23: no peer is connected to more than 3 times in one request_file
\* call and no peer is tried twice; every connection after the first one
\* follows an attempt that timed out and a sleep; a refused connection, a
\* header of another type than file_data and a hash mismatch end the try
\* of the peer on the attempt where they occur (the first one unless
\* attempts before it timed out), and the next candidate is tried.
C23_PermanentFailures ==
    Requested =>
       \A i \in DOMAIN last.tries :
          LET t == last.tries[i] IN
          /\ Len(t.conns) <= max_retries + 1
          /\ t.sleeps = Len(t.conns) - 1
          /\ Len(t.conns) - 1 <= t.link.timeouts
          /\ \A j \in DOMAIN last.tries : j # i => last.tries[j].peer # t.peer
          /\ t.err \in {"refused", "unexpected response type", "hash verification failed"} =>
               /\ Len(t.conns) = t.link.timeouts + 1
               /\ t.link.timeouts = 0 => (Len(t.conns) = 1 /\ t.sleeps = 0)
               /\ i < Len(last.cands) => i + 1 \in DOMAIN last.tries

\* C23 happens: the first candidate refused the first connection, the
\* second one served other bytes after one timeout.
C23_Witness ==
    /\ Requested
    /\ Len(last.tries) >= 2
    /\ last.tries[1].err = "refused"
    /\ Len(last.tries[1].conns) = 1
    /\ last.tries[2].err \in {"unexpected response type", "hash verification failed"}

\* C24: when the try of a candidate starts, no candidate that failed
\* before it in the same call is a key of peers or listed in a FileRecord.
C24_EvictedBeforeNext ==
    Requested => \A i \in DOMAIN last.tries : last.tries[i].stale = {}

\* C25: request_file tries the candidates in the order of the peer list
\* of the hash and stops at the first that succeeds; a peer list changes
\* only by appending at its end and by removals, so that its order is the
\* order of insertion.
C25_ListOrder ==
    [][/\ Requested_ =>
            LET n == last'.node
                h == last'.hash
                list == IF h \in DOMAIN shared_files[n]
                        THEN shared_files[n][h].peers ELSE <<>>
            IN  /\ Len(last'.tries) <= Len(list)
                /\ \A i \in DOMAIN last'.tries :
                     /\ last'.tries[i].peer = list[i]
                     /\ last'.tries[i].err = None <=>
                          (i = Len(last'.tries) /\ last'.result = "ok")
                /\ last'.result = "failed" => Len(last'.tries) = Len(list)
       /\ \A n \in Node :
            \A h \in DOMAIN shared_files[n] \cap DOMAIN shared_files'[n] :
               LET old == shared_files[n][h].peers
                   new == shared_files'[n][h].peers
               IN  \A i, j \in DOMAIN new :
                      (i < j /\ new[j] \in Range(old)) =>
                         /\ new[i] \in Range(old)
                         /\ Index(old, new[i]) < Index(old, new[j])]_vars

\* C25 happens: the first of two candidates served the file and the
\* second was not tried.
C25_Witness ==
    /\ Requested
    /\ last.result = "ok"
    /\ Len(last.cands) >= 2
    /\ Len(last.tries) = 1

\* C26: when the read loop ended on the close of the peer, the attempt
\* succeeds exactly when the SHA-256 of the bytes received is the requested
\* hash.
C26_HashAloneDecides ==
    Requested =>
       \A i \in DOMAIN last.tries :
          last.tries[i].closed =>
             (last.tries[i].err = None <=> sha256(last.tries[i].received) = last.hash)

\* C27: a recv that times out after the first byte neither fails nor
\* restarts the attempt: no further connection is made, the loop reads on
\* to the close of the peer, and the file then holds the bytes received
\* before and after the timeout; the attempt ends as the hash comparison
\* says.
C27_LateTimeoutTolerated ==
    Requested =>
       \A i \in DOMAIN last.tries :
          LET t == last.tries[i] IN
          (t.link.stall = "later" /\ Len(t.received) >= 1) =>
             /\ t.closed
             /\ Len(t.conns) = t.link.timeouts + 1
             /\ t.err \in {None, "hash verification failed"}
             /\ t.err = None <=> sha256(t.received) = last.hash
             /\ t.err = None =>
                  /\ t.dest \in DOMAIN disk[last.node]
                  /\ disk[last.node][t.dest] = t.received

\* C27 happens: a file of two bytes was downloaded over a connection whose
\* recv timed out after the first byte.
C27_Witness ==
    /\ Requested
    /\ last.result = "ok"
    /\ \E i \in DOMAIN last.tries :
         /\ last.tries[i].link.stall = "later"
         /\ last.tries[i].received = <<1, 2>>


\* C28: a datagram that is not JSON, has no type, or is an announce_file
\* without file_hash or file_name changes nothing in peers, shared_files
\* and local_files; a datagram of unknown type is dispatched to no handler
\* (the sweep that follows removes the expired peers, nothing else
\* changes); in each case the loop is still running and receiving.
C28_StrayDropped ==
    [][last'.op = "stray" =>
         LET n == last'.node
             m == last'.msg
             gone == DOMAIN peers[n] \ DOMAIN peers'[n]
         IN  /\ local_files' = local_files
             /\ net' = net
             /\ running'[n]
             /\ proc'[n].discovery_thread = "recvfrom"
             /\ m.type # "unknown" => (peers' = peers /\ shared_files' = shared_files)
             /\ DOMAIN peers'[n] \subseteq DOMAIN peers[n]
             /\ \A p \in DOMAIN peers'[n] : peers'[n][p] = peers[n][p]
             /\ \A p \in gone : now - peers[n][p] > 30
             /\ DOMAIN shared_files'[n] \subseteq DOMAIN shared_files[n]
             /\ \A h \in DOMAIN shared_files'[n] :
                  /\ Range(shared_files'[n][h].peers)
                       = Range(shared_files[n][h].peers) \ gone
                  /\ shared_files'[n][h].name = shared_files[n][h].name
             /\ gone = {} => shared_files'[n] = shared_files[n]]_vars

\* C28 happens: a node that tracks the sender and lists it in a
\* FileRecord received from it an announce_file without file_name.
C28_Witness ==
    /\ last.op = "stray"
    /\ last.msg.type = "announce_file"
    /\ last.msg.file_name = None
    /\ last.msg.src \in DOMAIN peers[last.node]
    /\ last.msg.src \in Listed(last.node)
    /\ now > peers[last.node][last.msg.src]

C30_HelloHandled ==
    [][(last'.op = "hello" /\ last'.msg.src # SelfAddr(last'.node)) =>
         LET n == last'.node
             X == last'.msg.src
             gone == DOMAIN peers[n] \ DOMAIN peers'[n]
         IN  /\ X \in DOMAIN peers'[n]
             /\ peers'[n][X] = now
             /\ Cardinality(last'.sent) = 1
             /\ \A r \in last'.sent :
                  /\ r.type = "hello_response"
                  /\ r.src = SelfAddr(n)
                  /\ r.dst = X
                  /\ DOMAIN r.files = DOMAIN local_files[n]
                  /\ \A h \in DOMAIN r.files : r.files[h] = local_files[n][h].name
             /\ net' \ net \subseteq last'.sent
             /\ \A p \in gone : now - peers[n][p] > 30
             /\ DOMAIN shared_files'[n] \subseteq DOMAIN shared_files[n]
             /\ \A h \in DOMAIN shared_files'[n] :
                  /\ Range(shared_files'[n][h].peers)
                       = Range(shared_files[n][h].peers) \ gone
                  /\ shared_files'[n][h].name = shared_files[n][h].name
             /\ gone = {} => shared_files'[n] = shared_files[n]]_vars

\* C30 happens: a node that shares a file and knows FileRecords answered
\* the hello of a peer it tracked since an earlier time.
C30_Witness ==
    /\ last.op = "hello"
    /\ last.msg.src # SelfAddr(last.node)
    /\ local_files[last.node] # Empty
    /\ now > 0
    /\ \E r \in last.sent : r \in net /\ r.files # Empty

C32_AnnounceTargets ==
    [][last'.op = "share_file" =>
         LET n == last'.node
             h == last'.hash
             targets == DOMAIN peers[n] \cup bootstrap_nodes(n)
         IN  /\ DOMAIN last'.sends = targets
             /\ \A a \in targets : last'.sends[a] = 1
             /\ net' \ net \subseteq
                  {Announce(n, a, h, basename(last'.path)) : a \in targets}
             /\ h \in DOMAIN local_files'[n]
             /\ local_files'[n][h].path = last'.path
             /\ h \in DOMAIN shared_files'[n]
             /\ SelfAddr(n) \in Range(shared_files'[n][h].peers)]_vars

\* C32 happens: C, whose peers are its bootstrap node and a node that
\* cannot be reached, shared a file; the announcement to the one was not
\* delivered, the one to the other was, and the file is registered.
C32_Witness ==
    /\ last.op = "share_file"
    /\ last.node = "C"
    /\ DOMAIN last.sends = {Outsider, SelfAddr("B")}
    /\ DOMAIN peers["C"] = {Outsider, SelfAddr("B")}
    /\ \E m \in net : m.type = "announce_file" /\ m.dst = SelfAddr("B")
                      /\ m.file_hash = last.hash
    /\ last.hash \in DOMAIN local_files["C"]

\* C33: an address a enters the peer list of hash h at node n only in a
\* step of n itself: share_file of h with a the own address of n, or the
\* handling of a hello_response whose files map names h, or of an
\* announce_file of h, addressed to n and sent from a.  What a step of n
\* hands to the network comes from n and tells of n's own files only: a
\* hello_response lists the keys of local_files, an announce_file is sent
\* by share_file for the hash it registers, and no handler of a datagram
\* sends anything but a hello_response.
C33_OneHop ==
    [][/\ \A n \in Node :
            \A h \in DOMAIN shared_files'[n] :
               \A a \in Range(shared_files'[n][h].peers)
                          \ (IF h \in DOMAIN shared_files[n]
                             THEN Range(shared_files[n][h].peers) ELSE {}) :
                  /\ last'.node = n
                  /\ \/ last'.op = "share_file" /\ last'.hash = h /\ a = SelfAddr(n)
                     \/ /\ last'.op = "hello_response"
                        /\ last'.msg \in net
                        /\ last'.msg.dst = SelfAddr(n)
                        /\ last'.msg.src = a
                        /\ h \in DOMAIN last'.msg.files
                     \/ /\ last'.op = "announce_file"
                        /\ last'.msg \in net
                        /\ last'.msg.dst = SelfAddr(n)
                        /\ last'.msg.src = a
                        /\ last'.msg.file_hash = h
       /\ \A m \in net' \ net :
            /\ m.src = SelfAddr(last'.node)
            /\ m.type = "hello_response" =>
                 /\ last'.op = "hello"
                 /\ DOMAIN m.files = DOMAIN local_files[last'.node]
            /\ m.type = "announce_file" =>
                 /\ last'.op = "share_file"
                 /\ m.file_hash = last'.hash
                 /\ m.file_hash \in DOMAIN local_files'[last'.node]
            /\ last'.op \in DiscoveryOps => m.type = "hello_response"]_vars

\* C33 happens: C handled the hello_response of B, which lists a file of
\* B, while B knows a hash it does not hold (the record of it lists
\* another node): C lists B for B's file and not for the other hash.
C33_Witness ==
    /\ last.op = "hello_response"
    /\ last.node = "C"
    /\ last.msg.src = SelfAddr("B")
    /\ last.msg.files # Empty
    /\ \E h \in DOMAIN shared_files["B"] :
         /\ h \notin DOMAIN local_files["B"]
         /\ h \notin DOMAIN last.msg.files
         /\ SelfAddr("B") \notin Range(shared_files["B"][h].peers)
         /\ h \in DOMAIN shared_files["C"]
         /\ SelfAddr("B") \notin Range(shared_files["C"][h].peers)
    /\ \A h \in DOMAIN last.msg.files :
         SelfAddr("B") \in Range(shared_files["C"][h].peers)

\* C34: discover_peers is entered once at startup and then once per
\* period of 30 seconds (two calls are at least 30 seconds apart); every
\* call hands one hello to sendto for each bootstrap node and one for the
\* broadcast address; once the periodic loop has seen the flag cleared, it
\* has ended and calls no more.
C34_OncePerPeriod ==
    \A n \in Node :
        /\ \A i \in 1..(Len(proc[n].calls) - 1) :
             proc[n].calls[i + 1] - proc[n].calls[i] >= 30
        /\ (last.node = n /\ last.op \in {"__init__", "_periodic_discovery"}) =>
              /\ DOMAIN last.sends = bootstrap_nodes(n) \cup {BroadcastAddr(n)}
              /\ \A a \in DOMAIN last.sends : last.sends[a] = 1
              /\ last.sent # {} => running[n]
        /\ proc[n].periodic = "exited" => ~running[n]

\* C35: however the stream of the server is cut into segments, an attempt
\* that is answered with the file_data header and meets no timeout takes
\* the header as the response and writes exactly the bytes of the file to
\* the destination, also when the header arrives together with the first
\* bytes of the file.
C35_AnySegmentation ==
    last.op = "request_file" =>
        \A i \in DOMAIN last.tries :
            LET t == last.tries[i]
            IN  (/\ t.reply.type = "file_data"
                 /\ t.link.timeouts = 0
                 /\ t.link.stall \in {"none", "merged"})
                => /\ t.received = t.reply.data
                   /\ t.closed
                   /\ t.dest # NoPath

\* C36: every call of request_file (by B, the node whose calls are
\* followed) ends, by a return or by a raise, whatever the candidate peers
\* do.
C36_RequestReturns ==
    (proc["B"].request = "called") ~> (proc["B"].request = "idle")

\* C37: a call of share_file for a hash whose last remote holder the
\* discovery thread evicts (on its goodbye) ends without an exception, and
\* when it has ended the hash is a key of local_files and the node's own
\* address is in the FileRecord of the hash.
C37_ShareSurvivesEviction ==
    \A n \in Node :
        LET th == proc[n].caller
            d == proc[n].discovery
        IN  (th.op = "share_file" /\ th.done /\ d.op = "goodbye" /\ th.hash \in d.held) =>
               /\ th.err = None
               /\ th.hash \in DOMAIN local_files[n]
               /\ (last.node = n /\ last.op \in {"share_member", "share_append"}) =>
                    /\ th.hash \in DOMAIN shared_files[n]
                    /\ SelfAddr(n) \in Range(shared_files[n][th.hash].peers)

\* C38: when request_file and the discovery thread (on a goodbye) are
\* inside _remove_peer for the same peer at the same time, neither call
\* ends with an exception, and at the step that ends the second of them the
\* peer has been deleted from peers exactly once and is neither a key of
\* peers nor listed in a FileRecord.
C38_ConcurrentEviction ==
    \A n \in Node :
        LET c == proc[n].caller
            d == proc[n].discovery
        IN  (c.op = "request_file" /\ d.op = "goodbye" /\ c.raced /\ d.raced) =>
               /\ c.err = None
               /\ d.err = None
               /\ (c.done /\ d.done /\ last.node = n
                     /\ last.op \in {"failed_for", "remove_return"}) =>
                     /\ c.dels + d.dels = 1
                     /\ d.peer \notin DOMAIN peers[n]
                     /\ d.peer \notin Listed(n)

\* C39: a peer's last-seen time is the time at which the node last
\* handled a hello or hello_response from it: handling one sets it to the
\* current time and keeps the peer, and no other step changes it.  The
\* sweep of a discovery step removes a peer only when more than 30 seconds
\* have passed since that time (the sender of a goodbye is removed by the
\* goodbye), so a peer heard from every 30 seconds is never swept.
C39_FreshPeerKept ==
    [][\A n \in Node :
         \A p \in DOMAIN peers[n] :
            LET heard == /\ last'.node = n
                         /\ last'.op \in {"hello", "hello_response"}
                         /\ last'.msg.src = p
            IN  /\ heard => (p \in DOMAIN peers'[n] /\ peers'[n][p] = now')
                /\ (~heard /\ p \in DOMAIN peers'[n]) => peers'[n][p] = peers[n][p]
                /\ (last'.node = n /\ last'.op \in DiscoveryOps /\ p \notin DOMAIN peers'[n]) =>
                      \/ last'.op = "goodbye" /\ last'.msg.src = p
                      \/ now - peers[n][p] > 30]_vars

\* C39 happens: the sweep that followed an announce_file removed its
\* sender, whose last hello or hello_response was more than 30 seconds old.
C39_Witness ==
    /\ last.op = "announce_file"
    /\ last.msg.src \in last.evicted
    /\ now > 30

\* C40: the display name of a FileRecord is the one it was created with:
\* no step changes the name of a record it keeps, whatever name a
\* hello_response, an announce_file or a share_file gives for the hash; an
\* announce_file for the hash leaves its sender in the record's list
\* (unless the sweep of the same step evicted the sender).
C40_NameFixed ==
    [][\A n \in Node :
         \A h \in DOMAIN shared_files[n] \cap DOMAIN shared_files'[n] :
            /\ shared_files'[n][h].name = shared_files[n][h].name
            /\ (/\ last'.node = n
                /\ last'.op = "announce_file"
                /\ last'.msg.file_hash = h
                /\ last'.msg.file_name # None
                /\ last'.msg.src \notin last'.evicted) =>
                  last'.msg.src \in Range(shared_files'[n][h].peers)]_vars

\* C40 happens: a node handled an announce_file whose name differs from
\* the name of the record it keeps for the hash, and the record lists the
\* sender.
C40_Witness ==
    /\ last.op = "announce_file"
    /\ last.msg.file_hash \in DOMAIN shared_files[last.node]
    /\ last.msg.file_name # None
    /\ last.msg.file_name # shared_files[last.node][last.msg.file_hash].name
    /\ last.msg.src \in Range(shared_files[last.node][last.msg.file_hash].peers)

====
